---- MODULE Spec2Model ----
(***************************************************************************)
(* Model of the Spec-Driven project orchestrator: the project metadata     *)
(* file, the relational project row, the two artifact stores, the          *)
(* approve-stack route handler (one step per awaited call), the phase      *)
(* pipeline of the orchestrator engine, and the project routes.            *)
(***************************************************************************)
EXTENDS Integers, Sequences, FiniteSets, TLC

VARIABLES
    meta,      \* the project's metadata file: NoProject or a metadata record
    dbProj,    \* the project's row in the relational store: NoProject or a record
    fsArt,     \* artifact storage: [ArtKeys -> artifact]
    dbArt,     \* artifacts in the relational store: [ArtKeys -> artifact]
    req,       \* approve-stack requests in flight: [ReqIds -> request record]
    last,      \* the response to the latest request; none while approve-stack is in flight
    reached,   \* history: the phases that have been the project's current_phase
    accepted,  \* history: the number of approve-stack requests that got past the checks
    approvals, \* history: the number of approve-stack requests answered with 200
    calls,     \* the calls the latest request made to the services behind its handler
    resp,      \* the response of the latest artifact or auth request
    proc,      \* the server process: its environment and how far its start has come
    dep,       \* the DependencySelector component: its state and its onApprove calls
    sel,       \* the StackSelection component: its state and its onStackSelect calls
    admin,     \* the users and settings tables and the admin requests in flight
    dash       \* the Dashboard component: its state and its requests in flight

\* the project, its stores and the requests on it
projectVars == <<meta, dbProj, fsArt, dbArt, req, last, reached, accepted, approvals>>

\* the components: each specification leaves alone the ones it is not about
componentVars == <<resp, proc, dep, sel, admin, dash>>

vars == <<projectVars, calls, componentVars>>

----------------------------------------------------------------------------
(* Bounds *)

\* number of approve-stack requests that can be in flight at the same time
MaxReq == 1

\* number of approve-stack requests that get past validation and the owner check
MaxApprovals == 2

----------------------------------------------------------------------------
(* Phases *)

PhaseOrder == <<"ANALYSIS", "STACK_SELECTION", "SPEC", "DEPENDENCIES", "SOLUTIONING", "DONE">>

Phases == {PhaseOrder[i] : i \in 1..Len(PhaseOrder)}

\* a phase name that the phase specification does not list
UnknownPhase == "UNKNOWN"

Rank(p) == CHOOSE i \in 1..Len(PhaseOrder) : PhaseOrder[i] = p

NextPhase(p) == IF Rank(p) < Len(PhaseOrder) THEN PhaseOrder[Rank(p) + 1] ELSE p

----------------------------------------------------------------------------
(* Strings, run-length encoded: a sequence of <<character, count>> runs.   *)

EmptyStr == <<>>

RECURSIVE StrLen(_)
StrLen(s) == IF s = <<>> THEN 0 ELSE s[1][2] + StrLen(Tail(s))

IsSpaceRun(run) == run[1] = " "

RECURSIVE TrimStart(_)
TrimStart(s) ==
    IF s = <<>> THEN <<>>
    ELSE IF IsSpaceRun(s[1]) THEN TrimStart(Tail(s))
    ELSE s

RECURSIVE TrimEnd(_)
TrimEnd(s) ==
    IF s = <<>> THEN <<>>
    ELSE IF IsSpaceRun(s[Len(s)]) THEN TrimEnd(SubSeq(s, 1, Len(s) - 1))
    ELSE s

\* String.prototype.trim
Trim(s) == TrimEnd(TrimStart(s))

\* A JSON value of a request body field: a string, null, or a field that is
\* not there.
Str(s) == [t |-> "string", v |-> s]
Null == [t |-> "null", v |-> <<>>]
Absent == [t |-> "absent", v |-> <<>>]

IsString(j) == j.t = "string"

----------------------------------------------------------------------------
(* Request schemas *)

MinStackChoice == 1
MaxReasoning == 2000

\* ApproveStackSchema.safeParse: the checks of a field run in the order they
\* are chained, so min and max look at the string before trim.
\* stack_choice without its min(1) check
stack_choiceFieldNoMin(j) ==
    IF ~IsString(j) THEN [success |-> FALSE, data |-> EmptyStr]
    ELSE [success |-> TRUE, data |-> Trim(j.v)]

stack_choiceField(j) ==
    IF ~IsString(j) THEN [success |-> FALSE, data |-> EmptyStr]
    ELSE IF StrLen(j.v) < MinStackChoice THEN [success |-> FALSE, data |-> EmptyStr]
    ELSE [success |-> TRUE, data |-> Trim(j.v)]

reasoningField(j) ==
    IF j.t = "absent" THEN [success |-> TRUE, data |-> EmptyStr]
    ELSE IF ~IsString(j) THEN [success |-> FALSE, data |-> EmptyStr]
    ELSE IF StrLen(j.v) > MaxReasoning THEN [success |-> FALSE, data |-> EmptyStr]
    ELSE [success |-> TRUE, data |-> Trim(j.v)]

ApproveStackSchema(body) ==
    LET c == stack_choiceField(body.stack_choice)
        r == reasoningField(body.reasoning)
    IN  [success |-> c.success /\ r.success,
         stack_choice |-> c.data,
         reasoning |-> r.data]

----------------------------------------------------------------------------
(* Inputs *)

Users == {"u1", "u2"}

\* the user who creates the project; the other user stands for everyone else
Creators == {"u1"}

ReqIds == 1..MaxReq

ChoiceA == << <<" ", 1>>, <<"a", 4>>, <<" ", 1>> >>

StackChoiceInputs == {Absent, Null, Str(EmptyStr), Str(ChoiceA)}

\* the strings that pass are all blank, so that the reasoning stored is the
\* same for every request that passes
ReasoningInputs ==
    {Absent, Null,
     Str(<< <<" ", MaxReasoning>> >>),
     Str(<< <<" ", MaxReasoning + 1>> >>),
     Str(<< <<"r", MaxReasoning + 1>> >>),
     Str(<< <<" ", 1>>, <<"r", MaxReasoning>> >>)}

\* a body is either text that is not JSON, or an object with the two fields;
\* the objects vary one field at a time
BadJson == [json |-> FALSE, stack_choice |-> Absent, reasoning |-> Absent]

ApproveBodies ==
    {BadJson}
        \cup {[json |-> TRUE, stack_choice |-> c, reasoning |-> Absent] : c \in StackChoiceInputs}
        \cup {[json |-> TRUE, stack_choice |-> Str(ChoiceA), reasoning |-> r] : r \in ReasoningInputs}

----------------------------------------------------------------------------
(* Stored records *)

NoProject == [exists |-> FALSE]

\* the metadata a new project starts with
NewMetadata(u) ==
    [exists |-> TRUE,
     created_by_id |-> u,
     current_phase |-> "ANALYSIS",
     phases_completed |-> <<>>,
     stack_choice |-> Null,
     stack_approved |-> FALSE,
     stack_reasoning |-> EmptyStr,
     dependencies_approved |-> FALSE]

\* the row of the relational store that mirrors the metadata
RowOf(m) ==
    [exists |-> TRUE,
     ownerId |-> m.created_by_id,
     current_phase |-> m.current_phase,
     stack_choice |-> m.stack_choice,
     stack_approved |-> m.stack_approved]

\* artifact names per phase
StackDecision == <<"STACK_SELECTION", "stack-decision.md">>
StackRationale == <<"STACK_SELECTION", "stack-rationale.md">>


\* the outputs of the executors, by phase
AnalystOutputs == {<<"ANALYSIS", "constitution.md">>, <<"ANALYSIS", "project-brief.md">>, <<"ANALYSIS", "personas.md">>}
PMOutputs == {<<"SPEC", "PRD.md">>}
ArchitectOutputs == {<<"SPEC", "data-model.md">>, <<"SPEC", "api-spec.json">>}
DependenciesOutputs == {<<"DEPENDENCIES", "DEPENDENCIES.md">>}
SolutioningOutputs == {<<"SOLUTIONING", "architecture.md">>}

ArtKeys ==
    AnalystOutputs \cup {StackDecision, StackRationale} \cup PMOutputs
        \cup ArchitectOutputs \cup DependenciesOutputs \cup SolutioningOutputs

NoContent == [doc |-> "none", template |-> EmptyStr, rationale |-> EmptyStr, at |-> 0]

\* An artifact is its versions: the documents written under its name, and the
\* newest of them, which is the one a read returns.
NoArtifact == [versions |-> {}, latest |-> NoContent]

Stored(store, k) == store[k].versions # {}

Latest(store, k) == store[k].latest

\* writeArtifact / saveArtifact: a write adds a version, the versions
\* before it stay
writeArtifact(store, k, content) ==
    [store EXCEPT ![k] = [versions |-> @.versions \cup {content}, latest |-> content]]

----------------------------------------------------------------------------
(* approve-stack: POST /api/projects/:slug/approve-stack *)

DefaultDecisionRationale == << <<"Stack approved by user.", 1>> >>
DefaultRationale == << <<"User approved the stack selection.", 1>> >>

\* the documents carry the time they were generated at (new Date()); the
\* time of a request is its number among the requests that got this far
generateStackDecisionContent(stackChoice, reasoning, timestamp) ==
    [doc |-> "stack-decision", template |-> stackChoice,
     rationale |-> IF reasoning = EmptyStr THEN DefaultDecisionRationale ELSE reasoning,
     at |-> timestamp]

generateStackRationaleContent(stackChoice, reasoning, date) ==
    [doc |-> "stack-rationale", template |-> stackChoice,
     rationale |-> IF reasoning = EmptyStr THEN DefaultRationale ELSE reasoning,
     at |-> date]

\* lines 284-300: the two documents of request r
stackDecisionContent(r) ==
    generateStackDecisionContent(req[r].stack_choice, req[r].reasoning, req[r].timestamp)

stackRationaleContent(r) ==
    generateStackRationaleContent(req[r].stack_choice, req[r].reasoning, req[r].timestamp)

IdleReq ==
    [pc |-> "idle", user |-> "u1", stack_choice |-> EmptyStr, reasoning |-> EmptyStr,
     metadata |-> NoProject, timestamp |-> 0]

NoRun == [phase |-> "", events |-> <<>>, returned |-> {}, architectInput |-> {}]

NoResponse ==
    [kind |-> "none", status |-> 0, success |-> FALSE, error |-> <<>>, run |-> NoRun]

Response(kind, status, error) ==
    [kind |-> kind, status |-> status, success |-> status \in {200, 201}, error |-> error,
     run |-> NoRun]

\* a handler that turns a request away while another one is in flight
ApproveStackBeginSingleFlight(r, u, body) ==
    /\ req[r].pc = "idle"
    /\ \A q \in DOMAIN req : q < r => req[q].pc # "idle"
    /\ accepted < MaxApprovals
    /\ LET validationResult == ApproveStackSchema(body)
           metadata == meta
       IN  IF ~body.json
           THEN /\ last' = Response("approve-stack", 500, <<"Failed", "to", "approve", "stack">>)
                /\ UNCHANGED <<req, accepted>>
           ELSE IF ~validationResult.success
           THEN /\ last' = Response("approve-stack", 400, <<"Invalid", "input">>)
                /\ UNCHANGED <<req, accepted>>
           ELSE IF ~metadata.exists \/ metadata.created_by_id # u
           THEN /\ last' = Response("approve-stack", 404, <<"Project", "not", "found">>)
                /\ UNCHANGED <<req, accepted>>
           ELSE IF \E q \in DOMAIN req : req[q].pc # "idle"
           THEN /\ last' = Response("approve-stack", 409, <<"Approval", "in", "progress">>)
                /\ UNCHANGED <<req, accepted>>
           ELSE /\ req' = [req EXCEPT ![r] =
                        [pc |-> "write", user |-> u,
                         stack_choice |-> validationResult.stack_choice,
                         reasoning |-> validationResult.reasoning,
                         metadata |-> metadata, timestamp |-> accepted + 1]]
                /\ accepted' = accepted + 1
                /\ last' = NoResponse
    /\ UNCHANGED <<meta, dbProj, fsArt, dbArt, reached, approvals>>

\* lines 246-282: read the body, validate it, read the metadata, check the owner
ApproveStackBegin(r, u, body) ==
    /\ req[r].pc = "idle"
    /\ \A q \in DOMAIN req : q < r => req[q].pc # "idle"
    /\ accepted < MaxApprovals
    /\ LET validationResult == ApproveStackSchema(body)
           metadata == meta
       IN  IF ~body.json
           THEN /\ last' = Response("approve-stack", 500, <<"Failed", "to", "approve", "stack">>)
                /\ UNCHANGED <<req, accepted>>
           ELSE IF ~validationResult.success
           THEN /\ last' = Response("approve-stack", 400, <<"Invalid", "input">>)
                /\ UNCHANGED <<req, accepted>>
           ELSE IF ~metadata.exists \/ metadata.created_by_id # u
           THEN /\ last' = Response("approve-stack", 404, <<"Project", "not", "found">>)
                /\ UNCHANGED <<req, accepted>>
           ELSE /\ req' = [req EXCEPT ![r] =
                        [pc |-> "write", user |-> u,
                         stack_choice |-> validationResult.stack_choice,
                         reasoning |-> validationResult.reasoning,
                         metadata |-> metadata, timestamp |-> accepted + 1]]
                /\ accepted' = accepted + 1
                /\ last' = NoResponse
    /\ UNCHANGED <<meta, dbProj, fsArt, dbArt, reached, approvals>>

\* lines 302-304: the two writeArtifact calls; either can throw
ApproveStackWrite(r, outcome) ==
    /\ req[r].pc = "write"
    /\ LET decision == stackDecisionContent(r)
           rationale == stackRationaleContent(r)
           one == writeArtifact(fsArt, StackDecision, decision)
           two == writeArtifact(one, StackRationale, rationale)
       IN  CASE outcome = "ok" ->
                  /\ fsArt' = two
                  /\ req' = [req EXCEPT ![r].pc = "dbart"]
                  /\ UNCHANGED last
            [] outcome = "first throws" ->
                  /\ fsArt' = fsArt
                  /\ req' = [req EXCEPT ![r] = IdleReq]
                  /\ last' = Response("approve-stack", 500, <<"Failed", "to", "approve", "stack">>)
            [] outcome = "second throws" ->
                  /\ fsArt' = one
                  /\ req' = [req EXCEPT ![r] = IdleReq]
                  /\ last' = Response("approve-stack", 500, <<"Failed", "to", "approve", "stack">>)
    /\ UNCHANGED <<meta, dbProj, dbArt, reached, accepted, approvals>>

\* ProjectDBService.getProjectBySlug(slug, userId)
getProjectBySlug(u) == IF dbProj.exists /\ dbProj.ownerId = u THEN dbProj ELSE NoProject

\* lines 306-336: look the project up in the relational store and save the
\* two documents there; a failing saveArtifact is caught and logged
ApproveStackPersistArtifacts(r, outcome) ==
    /\ req[r].pc = "dbart"
    /\ LET decision == stackDecisionContent(r)
           rationale == stackRationaleContent(r)
           dbProject == getProjectBySlug(req[r].user)
           one == writeArtifact(dbArt, StackDecision, decision)
           two == writeArtifact(one, StackRationale, rationale)
       IN  IF outcome = "lookup throws"
           THEN /\ dbArt' = dbArt
                /\ req' = [req EXCEPT ![r] = IdleReq]
                /\ last' = Response("approve-stack", 500, <<"Failed", "to", "approve", "stack">>)
           ELSE IF ~dbProject.exists \/ outcome = "first throws"
           THEN /\ dbArt' = dbArt
                /\ req' = [req EXCEPT ![r].pc = "savemeta"]
                /\ UNCHANGED last
           ELSE IF outcome = "second throws"
           THEN /\ dbArt' = one
                /\ req' = [req EXCEPT ![r].pc = "savemeta"]
                /\ UNCHANGED last
           ELSE /\ dbArt' = two
                /\ req' = [req EXCEPT ![r].pc = "savemeta"]
                /\ UNCHANGED last
    /\ UNCHANGED <<meta, dbProj, fsArt, reached, accepted, approvals>>

\* the updated metadata without stack_approved: true
updatedWithoutFlag(r) ==
    [req[r].metadata EXCEPT
        !.stack_choice = Str(req[r].stack_choice),
        !.stack_reasoning = req[r].reasoning]

\* lines 339-351: the metadata read at the start, with the stack fields replaced
updated(r) ==
    [req[r].metadata EXCEPT
        !.stack_choice = Str(req[r].stack_choice),
        !.stack_approved = TRUE,
        !.stack_reasoning = req[r].reasoning]

\* line 353: saveProjectMetadata(slug, updated)
ApproveStackSaveMetadata(r, outcome) ==
    /\ req[r].pc = "savemeta"
    /\ IF outcome = "ok"
       THEN /\ meta' = updated(r)
            /\ req' = [req EXCEPT ![r].pc = "persist"]
            /\ UNCHANGED last
       ELSE /\ meta' = meta
            /\ req' = [req EXCEPT ![r] = IdleReq]
            /\ last' = Response("approve-stack", 500, <<"Failed", "to", "approve", "stack">>)
    /\ reached' = reached \cup {meta'.current_phase}
    /\ UNCHANGED <<dbProj, fsArt, dbArt, accepted, approvals>>

\* persistProjectToDB(slug, metadata): the project's row takes the metadata's fields
persistProjectToDB(m) == RowOf(m)

\* lines 354-374: persistProjectToDB(slug, updated), then the 200 response
ApproveStackPersistProject(r, outcome) ==
    /\ req[r].pc = "persist"
    /\ IF outcome = "ok"
       THEN /\ dbProj' = persistProjectToDB(updated(r))
            /\ last' = Response("approve-stack", 200, <<>>)
            /\ approvals' = approvals + 1
       ELSE /\ dbProj' = dbProj
            /\ last' = Response("approve-stack", 500, <<"Failed", "to", "approve", "stack">>)
            /\ approvals' = approvals
    /\ req' = [req EXCEPT ![r] = IdleReq]
    /\ UNCHANGED <<meta, fsArt, dbArt, reached, accepted>>

----------------------------------------------------------------------------
(* The orchestrator engine: runPhaseAgent *)

\* spec.phases of the phase specification: the executors of each phase, in
\* the order they run
SpecPhases ==
    [p \in Phases |->
        CASE p = "ANALYSIS" -> <<"Analyst">>
          [] p = "SPEC" -> <<"PM", "Architect">>
          [] p = "DEPENDENCIES" -> <<"Dependencies">>
          [] p = "SOLUTIONING" -> <<"Solutioning">>
          [] OTHER -> <<>>]

ExecutorOutputs(e) ==
    CASE e = "Analyst" -> AnalystOutputs
      [] e = "PM" -> PMOutputs
      [] e = "Architect" -> ArchitectOutputs
      [] e = "Dependencies" -> DependenciesOutputs
      [] e = "Solutioning" -> SolutioningOutputs

RECURSIVE SeqOutputs(_)
SeqOutputs(execs) ==
    IF execs = <<>> THEN {} ELSE ExecutorOutputs(Head(execs)) \cup SeqOutputs(Tail(execs))

\* the artifacts a phase must have before the project can leave it
RequiredArtifacts(p) ==
    IF p = "STACK_SELECTION" THEN {StackDecision, StackRationale}
    ELSE SeqOutputs(SpecPhases[p])

Generated == [doc |-> "generated", template |-> EmptyStr, rationale |-> EmptyStr, at |-> 0]

RECURSIVE SaveAll(_, _)
SaveAll(store, keys) ==
    IF keys = {} THEN store
    ELSE LET k == CHOOSE x \in keys : TRUE
         IN  SaveAll(writeArtifact(store, k, Generated), keys \ {k})

\* the artifacts of earlier phases that the route collects for the engine
PriorArtifacts(store, phase) ==
    {[key |-> k, origin |-> "stored"] : k \in {x \in ArtKeys : Stored(store, x) /\ x[1] # phase}}

\* an executor's result that is not handed on
MergeNothing(artifacts, outputs) == artifacts

\* the result of one executor merged into the artifacts handed on
Merge(artifacts, outputs) == artifacts \cup {[key |-> k, origin |-> "request"] : k \in outputs}

\* One executor after the other: each is handed the artifacts merged so far,
\* its outputs are saved as soon as it returns, and a failing executor ends
\* the run.  failAt is the position of the executor whose LLM call fails (0: none).
RECURSIVE RunExecutors(_, _, _, _)
RunExecutors(execs, i, failAt, st) ==
    IF execs = <<>> THEN st
    ELSE LET e == Head(execs)
             started == [st EXCEPT
                 !.events = Append(@, <<"run", e>>),
                 !.architectInput = IF e = "Architect" THEN st.artifacts ELSE @]
         IN  IF failAt = i
             THEN [started EXCEPT !.failed = TRUE, !.events = Append(@, <<"failed", e>>)]
             ELSE RunExecutors(Tail(execs), i + 1, failAt,
                    [started EXCEPT
                        !.store = SaveAll(@, ExecutorOutputs(e)),
                        !.events = Append(@, <<"saved", e>>),
                        !.artifacts = Merge(@, ExecutorOutputs(e)),
                        !.returned = @ \cup ExecutorOutputs(e)])

\* runPhaseAgent with the phase check after the executors: a phase the
\* specification does not list runs the first phase's executors
runPhaseAgentCheckedLate(currentPhaseName, artifacts, store, failAt) ==
    LET start == [store |-> store, artifacts |-> artifacts, events |-> <<>>,
                  returned |-> {}, architectInput |-> {}, failed |-> FALSE, unknown |-> FALSE]
        known == currentPhaseName \in DOMAIN SpecPhases
        ran == RunExecutors(IF known THEN SpecPhases[currentPhaseName]
                            ELSE SpecPhases[PhaseOrder[1]], 1, failAt, start)
    IN  IF known THEN ran ELSE [ran EXCEPT !.failed = TRUE, !.unknown = TRUE]

\* runPhaseAgent(project, artifacts): the phase name is checked against the
\* phase specification before anything else is created or run
runPhaseAgent(currentPhaseName, artifacts, store, failAt) ==
    LET start == [store |-> store, artifacts |-> artifacts, events |-> <<>>,
                  returned |-> {}, architectInput |-> {}, failed |-> FALSE, unknown |-> FALSE]
    IN  IF currentPhaseName \notin DOMAIN SpecPhases
        THEN [start EXCEPT !.failed = TRUE, !.unknown = TRUE]
        ELSE RunExecutors(SpecPhases[currentPhaseName], 1, failAt, start)

ExecResponse(phase, result) ==
    [kind |-> "execute-phase",
     status |-> IF result.failed THEN 500 ELSE 200,
     success |-> ~result.failed,
     error |-> IF result.unknown THEN <<"Unknown", "phase">>
               ELSE IF result.failed THEN <<"Phase", "execution", "failed">> ELSE <<>>,
     run |-> [phase |-> phase, events |-> result.events, returned |-> result.returned,
              architectInput |-> result.architectInput]]

\* the phase names a request can carry: the project's current phase, or a
\* name the phase specification does not know
PhaseNames(m) == {m.current_phase, UnknownPhase}

\* POST /api/projects/[slug]/execute-phase
ExecutePhase(u, phaseName, failAt) ==
    /\ meta.exists /\ meta.created_by_id = u
    /\ phaseName \in PhaseNames(meta)
    /\ phaseName \in Phases =>
          failAt \in 0..Len(SpecPhases[phaseName])
    /\ phaseName \notin Phases => failAt = 0
    /\ LET result == runPhaseAgent(phaseName, PriorArtifacts(fsArt, phaseName), fsArt, failAt)
       IN  /\ fsArt' = result.store
           /\ last' = ExecResponse(phaseName, result)
    /\ UNCHANGED <<meta, dbProj, dbArt, req, reached, accepted, approvals>>

----------------------------------------------------------------------------
(* The project routes *)

NameInputs == {Absent, Null, Str(EmptyStr), Str(<< <<"P", 4>> >>)}

ProjectNameRequired == <<"Project", "name", "is", "required">>

\* a name check that lets null through
NameGivenOrNull(j) == j.t = "null" \/ (IsString(j) /\ StrLen(j.v) >= 1)

\* the name is there and is a string of at least one character
NameGiven(j) == IsString(j) /\ StrLen(j.v) >= 1

\* POST /api/projects: validate the name, create the row, write the metadata
CreateProject(u, name, outcome) ==
    /\ IF ~NameGiven(name)
       THEN /\ last' = Response("create", 400, ProjectNameRequired)
            /\ UNCHANGED <<meta, dbProj>>
       ELSE IF outcome = "create throws" \/ dbProj.exists
       THEN /\ last' = Response("create", 500, <<"Failed", "to", "create", "project">>)
            /\ UNCHANGED <<meta, dbProj>>
       ELSE IF outcome = "save throws"
       THEN /\ dbProj' = RowOf(NewMetadata(u))
            /\ meta' = meta
            /\ last' = Response("create", 500, <<"Failed", "to", "create", "project">>)
       ELSE /\ dbProj' = RowOf(NewMetadata(u))
            /\ meta' = NewMetadata(u)
            /\ last' = Response("create", 201, <<>>)
    /\ reached' = IF meta'.exists THEN reached \cup {meta'.current_phase} ELSE reached
    /\ UNCHANGED <<fsArt, dbArt, req, accepted, approvals>>

\* the approval a phase needs before the project can leave it
Approved(m) ==
    CASE m.current_phase = "STACK_SELECTION" -> m.stack_approved
      [] m.current_phase = "DEPENDENCIES" -> m.dependencies_approved
      [] OTHER -> TRUE

\* the phase advance: when the artifacts of the current phase exist and are
\* approved where required, the project moves to the next phase
AdvancePhase(u) ==
    /\ meta.exists /\ meta.created_by_id = u
    /\ meta.current_phase # "DONE"
    /\ \A k \in RequiredArtifacts(meta.current_phase) : Stored(fsArt, k)
    /\ Approved(meta)
    /\ meta' = [meta EXCEPT
           !.current_phase = NextPhase(@),
           !.phases_completed = Append(@, meta.current_phase)]
    /\ dbProj' = IF dbProj.exists THEN persistProjectToDB(meta') ELSE dbProj
    /\ last' = Response("advance", 200, <<>>)
    /\ reached' = reached \cup {meta'.current_phase}
    /\ UNCHANGED <<fsArt, dbArt, req, accepted, approvals>>

\* POST /api/projects/:slug/approve-dependencies
ApproveDependencies(u) ==
    /\ IF ~meta.exists \/ meta.created_by_id # u
       THEN /\ last' = Response("approve-dependencies", 404, <<"Project", "not", "found">>)
            /\ UNCHANGED <<meta, dbProj>>
       ELSE /\ meta' = [meta EXCEPT !.dependencies_approved = TRUE]
            /\ dbProj' = IF dbProj.exists THEN persistProjectToDB(meta') ELSE dbProj
            /\ last' = Response("approve-dependencies", 200, <<>>)
    /\ UNCHANGED <<fsArt, dbArt, req, reached, accepted, approvals>>

----------------------------------------------------------------------------
(* Initial states *)

\* no project, empty stores, no request in flight
InitProject ==
    /\ meta = NoProject
    /\ dbProj = NoProject
    /\ fsArt = [k \in ArtKeys |-> NoArtifact]
    /\ dbArt = [k \in ArtKeys |-> NoArtifact]
    /\ req = [r \in ReqIds |-> IdleReq]
    /\ last = NoResponse
    /\ reached = {}
    /\ accepted = 0
    /\ approvals = 0

\* the components before anything happens to them
InitComponents ==
    /\ resp = NoResponse
    /\ proc = [pc |-> "off"]
    /\ dep = [pc |-> "unmounted"]
    /\ sel = [pc |-> "unmounted"]
    /\ admin = [pc |-> "off"]
    /\ dash = [pc |-> "unmounted"]

----------------------------------------------------------------------------
(* The routes on /projects and /projects/{slug}, behind the rate limiter *)

\* the slug of the project, and a slug no project has
ProjectSlug == "test-slug"
Slugs == {ProjectSlug, "nonexistent"}

\* a lookup that finds whatever project there is, whichever slug is asked for
getProjectMetadataAnySlug(slug) == meta

\* getProjectMetadata(slug): the metadata stored under the slug, if any
getProjectMetadata(slug) == IF slug = ProjectSlug /\ meta.exists THEN meta ELSE NoProject

\* the calls that change the relational store or the files
WriteCalls ==
    {"createProject", "saveProjectMetadata", "persistProjectToDB",
     "deleteProjectFromDB", "deleteProject"}

\* the calls that read or change the relational store or the files
ServiceCalls == WriteCalls \cup {"listProjects", "getProjectMetadata"}

CallsOf(log) == {log[i] : i \in DOMAIN log}

TooManyRequests == <<"Too", "many", "requests">>

\* the calls POST /projects makes, by how far it gets
CreateCalls(name, outcome) ==
    IF ~NameGiven(name) THEN <<>>
    ELSE IF outcome = "create throws" \/ dbProj.exists THEN <<"createProject">>
    ELSE <<"createProject", "saveProjectMetadata">>

\* a limiter that is asked but not obeyed
PostProjectsUnlimited(u, name, allowed, outcome) ==
    /\ CreateProject(u, name, outcome)
    /\ calls' = CreateCalls(name, outcome)

\* POST /projects: the limiter first, then the handler
PostProjects(u, name, allowed, outcome) ==
    IF ~allowed
    THEN /\ last' = Response("create", 429, TooManyRequests)
         /\ calls' = <<>>
         /\ UNCHANGED <<meta, dbProj, fsArt, dbArt, req, reached, accepted, approvals>>
    ELSE /\ CreateProject(u, name, outcome)
         /\ calls' = CreateCalls(name, outcome)

\* GET /projects: the limiter first, then listProjects
ListProjects(allowed, outcome) ==
    /\ IF ~allowed
       THEN /\ last' = Response("list", 429, TooManyRequests)
            /\ calls' = <<>>
       ELSE IF outcome = "list throws"
       THEN /\ last' = Response("list", 500, <<"Failed", "to", "list", "projects">>)
            /\ calls' = <<"listProjects">>
       ELSE /\ last' = Response("list", 200, <<>>)
            /\ calls' = <<"listProjects">>
    /\ UNCHANGED <<meta, dbProj, fsArt, dbArt, req, reached, accepted, approvals>>

\* GET /projects/{slug}
GetSingleProject(slug) ==
    /\ calls' = <<"getProjectMetadata">>
    /\ last' = IF getProjectMetadata(slug).exists
               THEN Response("get", 200, <<>>)
               ELSE Response("get", 404, <<"Project", "not", "found">>)
    /\ UNCHANGED <<meta, dbProj, fsArt, dbArt, req, reached, accepted, approvals>>

\* PUT /projects/{slug}: the metadata is saved again and persisted
UpdateProject(slug, outcome) ==
    /\ IF ~getProjectMetadata(slug).exists
       THEN /\ last' = Response("update", 404, <<"Project", "not", "found">>)
            /\ calls' = <<"getProjectMetadata">>
            /\ dbProj' = dbProj
       ELSE IF outcome = "save throws"
       THEN /\ last' = Response("update", 500, <<"Failed", "to", "update", "project">>)
            /\ calls' = <<"getProjectMetadata", "saveProjectMetadata">>
            /\ dbProj' = dbProj
       ELSE /\ last' = Response("update", 200, <<>>)
            /\ calls' = <<"getProjectMetadata", "saveProjectMetadata", "persistProjectToDB">>
            /\ dbProj' = persistProjectToDB(meta)
    /\ UNCHANGED <<meta, fsArt, dbArt, req, reached, accepted, approvals>>

\* DELETE /projects/{slug}: the row first, then the files with their artifacts
DeleteProject(slug, outcome) ==
    /\ IF ~getProjectMetadata(slug).exists
       THEN /\ last' = Response("delete", 404, <<"Project", "not", "found">>)
            /\ calls' = <<"getProjectMetadata">>
            /\ UNCHANGED <<meta, dbProj, fsArt, dbArt, reached>>
       ELSE IF outcome = "db throws"
       THEN /\ last' = Response("delete", 500, <<"Failed", "to", "delete", "project">>)
            /\ calls' = <<"getProjectMetadata", "deleteProjectFromDB">>
            /\ UNCHANGED <<meta, dbProj, fsArt, dbArt, reached>>
       ELSE IF outcome = "files throw"
       THEN /\ last' = Response("delete", 500, <<"Failed", "to", "delete", "project">>)
            /\ calls' = <<"getProjectMetadata", "deleteProjectFromDB", "deleteProject">>
            /\ dbProj' = NoProject
            /\ dbArt' = [k \in ArtKeys |-> NoArtifact]
            /\ UNCHANGED <<meta, fsArt, reached>>
       ELSE /\ last' = Response("delete", 200, <<>>)
            /\ calls' = <<"getProjectMetadata", "deleteProjectFromDB", "deleteProject">>
            /\ dbProj' = NoProject
            /\ dbArt' = [k \in ArtKeys |-> NoArtifact]
            /\ meta' = NoProject
            /\ fsArt' = [k \in ArtKeys |-> NoArtifact]
            /\ reached' = {}
    /\ UNCHANGED <<req, accepted, approvals>>

NextRoutes ==
    \/ /\ \E u \in Creators, name \in NameInputs, a \in BOOLEAN,
              o \in {"ok", "create throws", "save throws"} : PostProjects(u, name, a, o)
       /\ UNCHANGED componentVars
    \/ /\ \E a \in BOOLEAN, o \in {"ok", "list throws"} : ListProjects(a, o)
       /\ UNCHANGED componentVars
    \/ /\ \E slug \in Slugs : GetSingleProject(slug)
       /\ UNCHANGED componentVars
    \/ /\ \E slug \in Slugs, o \in {"ok", "save throws"} : UpdateProject(slug, o)
       /\ UNCHANGED componentVars
    \/ /\ \E slug \in Slugs, o \in {"ok", "db throws", "files throw"} : DeleteProject(slug, o)
       /\ UNCHANGED componentVars
    \/ /\ \E u \in Creators, f \in 0..2 : ExecutePhase(u, meta.current_phase, f)
       /\ UNCHANGED <<calls, componentVars>>
    \/ /\ \E u \in Creators : AdvancePhase(u)
       /\ UNCHANGED <<calls, componentVars>>

----------------------------------------------------------------------------
(* GET /projects/{slug}/artifacts/{phase}/{name} *)

\* artifact names, a character at a time
DotJson == <<".", "j", "s", "o", "n">>
DotMd == <<".", "m", "d">>

NameJson == <<"a">> \o DotJson
NameMd == <<"a">> \o DotMd
NameTxt == <<"a", ".", "t", "x", "t">>
NameJsonMd == <<"a">> \o DotJson \o DotMd
NameNoDot == <<"j", "s", "o", "n">>
NameUpper == <<"a", ".", "M", "D">>

GetNames == {NameJson, NameMd, NameTxt, NameJsonMd, NameNoDot, NameUpper}

GetPhase == "SPEC"

GetKeys == {<<GetPhase, n>> : n \in GetNames}

\* what artifact storage can hold under a name: nothing, one version, or two
FirstVersion == [doc |-> "generated", template |-> EmptyStr, rationale |-> EmptyStr, at |-> 1]
SecondVersion == [doc |-> "generated", template |-> EmptyStr, rationale |-> EmptyStr, at |-> 2]

GetStores ==
    {NoArtifact,
     [versions |-> {FirstVersion}, latest |-> FirstVersion],
     [versions |-> {FirstVersion, SecondVersion}, latest |-> SecondVersion]}

\* String.prototype.endsWith
EndsWith(name, suffix) ==
    /\ Len(name) >= Len(suffix)
    /\ SubSeq(name, Len(name) - Len(suffix) + 1, Len(name)) = suffix

\* String.prototype.includes
Includes(name, part) ==
    \E i \in 1..(Len(name) - Len(part) + 1) : SubSeq(name, i, i + Len(part) - 1) = part

\* a content type taken from what the name contains, not from how it ends
contentTypeByIncludes(name) ==
    IF Includes(name, DotJson) THEN "application/json"
    ELSE IF Includes(name, DotMd) THEN "text/markdown"
    ELSE "text/plain"

\* lines 27-33: the content type, from the extension of the name
contentType(name) ==
    IF EndsWith(name, DotJson) THEN "application/json"
    ELSE IF EndsWith(name, DotMd) THEN "text/markdown"
    ELSE "text/plain"

\* NextResponse.json({ success: false, error }, { status })
JsonError(status, error) ==
    [kind |-> "artifact", status |-> status, success |-> FALSE, error |-> error,
     contentType |-> "application/json", filename |-> <<>>, body |-> NoContent]

\* GET: the metadata first, then the artifact; a failing read is answered
\* by the inner catch, anything else that throws by the outer one
GetArtifact(slug, phase, name, outcome) ==
    /\ IF outcome = "metadata throws"
       THEN /\ resp' = JsonError(500, <<"Failed", "to", "fetch", "artifact">>)
            /\ calls' = <<"getProjectMetadata">>
       ELSE IF ~getProjectMetadata(slug).exists
       THEN /\ resp' = JsonError(404, <<"Project", "not", "found">>)
            /\ calls' = <<"getProjectMetadata">>
       ELSE IF outcome = "read throws" \/ ~Stored(fsArt, <<phase, name>>)
       THEN /\ resp' = JsonError(404, <<"Artifact", "not", "found">>)
            /\ calls' = <<"getProjectMetadata", "readArtifact">>
       ELSE /\ resp' = [kind |-> "artifact", status |-> 200, success |-> TRUE, error |-> <<>>,
                        contentType |-> contentType(name), filename |-> name,
                        body |-> Latest(fsArt, <<phase, name>>)]
            /\ calls' = <<"getProjectMetadata", "readArtifact">>
    /\ UNCHANGED <<projectVars, proc, dep, sel, admin, dash>>

\* a project or none, and any artifacts under the names
InitArtifact ==
    /\ meta \in {NoProject, NewMetadata("u1")}
    /\ dbProj = NoProject
    /\ fsArt \in [GetKeys -> GetStores]
    /\ dbArt = [k \in ArtKeys |-> NoArtifact]
    /\ req = [r \in ReqIds |-> IdleReq]
    /\ last = NoResponse
    /\ reached = {}
    /\ accepted = 0
    /\ approvals = 0
    /\ calls = <<>>
    /\ InitComponents

NextArtifact ==
    \E slug \in Slugs, name \in GetNames, o \in {"ok", "metadata throws", "read throws"} :
        GetArtifact(slug, GetPhase, name, o)

----------------------------------------------------------------------------
(* The environment at process start *)

\* number of requests the process serves once it runs
MaxServed == 2

MinSecret == 32
MinApiKey == 1

\* the value of a URL variable: the scheme its text starts with, and whether
\* the text is a URL at all
UrlText(scheme, wellFormed) == [t |-> "string", v |-> [scheme |-> scheme, url |-> wellFormed]]

\* z.string().url(...)
IsUrl(j) == IsString(j) /\ j.v.url

\* url.startsWith('postgres') || url.startsWith('postgresql')
StartsWithPostgres(j) == j.v.scheme \in {"postgres", "postgresql"}

DATABASE_URLField(j) == IsUrl(j) /\ StartsWithPostgres(j)

\* z.string().min(32, ...).optional()
SecretField(j) == j.t = "absent" \/ (IsString(j) /\ StrLen(j.v) >= MinSecret)

GEMINI_API_KEYField(j) == IsString(j) /\ StrLen(j.v) >= MinApiKey

NEXT_PUBLIC_APP_URLField(j) == IsUrl(j)

\* envSchema.parse(process.env) does not throw
envSchema(e) ==
    /\ DATABASE_URLField(e.DATABASE_URL)
    /\ SecretField(e.BETTER_AUTH_SECRET)
    /\ SecretField(e.AUTH_SECRET)
    /\ GEMINI_API_KEYField(e.GEMINI_API_KEY)
    /\ NEXT_PUBLIC_APP_URLField(e.NEXT_PUBLIC_APP_URL)

UrlInputs ==
    {Absent, UrlText("postgres", TRUE), UrlText("postgresql", TRUE),
     UrlText("mysql", TRUE), UrlText("postgres", FALSE)}

SecretInputs ==
    {Absent, Str(EmptyStr), Str(<< <<"s", MinSecret - 1>> >>), Str(<< <<"s", MinSecret>> >>)}

ApiKeyInputs == {Absent, Str(EmptyStr), Str(<< <<"k", 1>> >>)}

AppUrlInputs == {Absent, UrlText("https", TRUE), UrlText("https", FALSE)}

EnvInputs ==
    [DATABASE_URL : UrlInputs, BETTER_AUTH_SECRET : SecretInputs, AUTH_SECRET : SecretInputs,
     GEMINI_API_KEY : ApiKeyInputs, NEXT_PUBLIC_APP_URL : AppUrlInputs]

\* lines 88-117: parse the environment; a ZodError prints and exits with 1
ValidateEnv ==
    /\ proc.pc = "start"
    /\ proc' = IF envSchema(proc.env)
               THEN [proc EXCEPT !.pc = "validated"]
               ELSE [proc EXCEPT !.pc = "exited", !.exitCode = 1]
    /\ UNCHANGED <<projectVars, calls, resp, dep, sel, admin, dash>>

\* line 123: export const env = validatedEnv; the module is loaded
ExportEnv ==
    /\ proc.pc = "validated"
    /\ proc' = [proc EXCEPT !.pc = "running", !.exported = TRUE]
    /\ UNCHANGED <<projectVars, calls, resp, dep, sel, admin, dash>>

\* a request that needs no secret
ServeRequest ==
    /\ proc.pc = "running"
    /\ proc.served < MaxServed
    /\ proc' = [proc EXCEPT !.served = @ + 1]
    /\ UNCHANGED <<projectVars, calls, resp, dep, sel, admin, dash>>

\* env.BETTER_AUTH_SECRET || env.AUTH_SECRET
secret(e) ==
    IF IsString(e.BETTER_AUTH_SECRET) /\ e.BETTER_AUTH_SECRET.v # EmptyStr
    THEN e.BETTER_AUTH_SECRET
    ELSE e.AUTH_SECRET

\* getJWTSecret(), called by a request that signs or verifies a token:
\* without a secret it prints and exits with 1
getJWTSecret ==
    /\ proc.pc = "running"
    /\ proc.served < MaxServed
    /\ proc' = IF ~IsString(secret(proc.env)) \/ secret(proc.env).v = EmptyStr
               THEN [proc EXCEPT !.pc = "exited", !.exitCode = 1]
               ELSE [proc EXCEPT !.served = @ + 1]
    /\ UNCHANGED <<projectVars, calls, resp, dep, sel, admin, dash>>

\* the process is started with some environment
InitEnv ==
    /\ InitProject
    /\ calls = <<>>
    /\ resp = NoResponse
    /\ proc \in [pc : {"start"}, env : EnvInputs, exitCode : {0}, exported : {FALSE}, served : {0}]
    /\ dep = [pc |-> "unmounted"]
    /\ sel = [pc |-> "unmounted"]
    /\ admin = [pc |-> "off"]
    /\ dash = [pc |-> "unmounted"]

NextEnv ==
    \/ ValidateEnv
    \/ ExportEnv
    \/ ServeRequest
    \/ getJWTSecret

----------------------------------------------------------------------------
(* Two approve-stack requests at the same time *)

\* number of approve-stack requests in flight at the same time
MaxRace == 2

RaceIds == 1..MaxRace

ChoiceB == << <<"b", 4>> >>

\* the two requests differ in the stack they choose
RaceBodies ==
    {[json |-> TRUE, stack_choice |-> Str(c), reasoning |-> Absent] : c \in {ChoiceA, ChoiceB}}

\* a project its owner has just created, and no request in flight
InitRace ==
    /\ meta = NewMetadata("u1")
    /\ dbProj = RowOf(NewMetadata("u1"))
    /\ fsArt = [k \in ArtKeys |-> NoArtifact]
    /\ dbArt = [k \in ArtKeys |-> NoArtifact]
    /\ req = [r \in RaceIds |-> IdleReq]
    /\ last = NoResponse
    /\ reached = {"ANALYSIS"}
    /\ accepted = 0
    /\ approvals = 0
    /\ calls = <<>>
    /\ InitComponents

NextRace ==
    \/ /\ \E r \in RaceIds, b \in RaceBodies : ApproveStackBegin(r, "u1", b)
       /\ UNCHANGED <<calls, componentVars>>
    \/ /\ \E r \in RaceIds, o \in {"ok", "first throws", "second throws"} : ApproveStackWrite(r, o)
       /\ UNCHANGED <<calls, componentVars>>
    \/ /\ \E r \in RaceIds, o \in {"ok", "lookup throws", "first throws", "second throws"} :
             ApproveStackPersistArtifacts(r, o)
       /\ UNCHANGED <<calls, componentVars>>
    \/ /\ \E r \in RaceIds, o \in {"ok", "throws"} : ApproveStackSaveMetadata(r, o)
       /\ UNCHANGED <<calls, componentVars>>
    \/ /\ \E r \in RaceIds, o \in {"ok", "throws"} : ApproveStackPersistProject(r, o)
       /\ UNCHANGED <<calls, componentVars>>

----------------------------------------------------------------------------
(* POST /api/auth/verify *)

\* the bearer tokens a request may carry
Tokens == {<< <<"t", 3>> >>, << <<"v", 3>> >>, << <<"w", 3>> >>}

\* a call that throws, with the message of its error
Thrown(message) == [t |-> "Thrown", v |-> message]

\* what extractToken(request) gives: it throws, finds no token, or finds one
TokenResults == {Thrown("extract")} \cup {Null, Str(EmptyStr)} \cup {Str(t) : t \in Tokens}

\* what the auth service has for a token: no user, or a user
UserResults == {Null} \cup {[t |-> "User", v |-> u] : u \in Users}

\* !token, !user
Falsy(x) == x = Null \/ x = Str(EmptyStr)

VerifyResponse(status, success, message, user) ==
    [kind |-> "verify", status |-> status, success |-> success, message |-> message,
     user |-> user]

\* a handler that asks the auth service before it looks at the token
AuthVerifyServiceFirst(token, outcome) ==
    /\ proc.pc = "serving"
    /\ IF token.t = "Thrown"
       THEN /\ resp' = VerifyResponse(500, FALSE, <<"Verification", "failed:", token.v>>, Absent)
            /\ calls' = <<>>
       ELSE /\ calls' = <<"getCurrentUser">>
            /\ IF Falsy(token)
               THEN resp' = VerifyResponse(400, FALSE,
                                <<"No", "authentication", "token", "provided">>, Absent)
               ELSE IF outcome = "throws"
               THEN resp' = VerifyResponse(500, FALSE,
                                <<"Verification", "failed:", "service">>, Absent)
               ELSE IF Falsy(proc.sessions[token.v])
               THEN resp' = VerifyResponse(401, FALSE,
                                <<"Invalid", "or", "expired", "token">>, Absent)
               ELSE resp' = VerifyResponse(200, TRUE, <<"Token", "is", "valid">>,
                                proc.sessions[token.v])
    /\ UNCHANGED <<projectVars, proc, dep, sel, admin, dash>>

\* lines 20-65: POST; token is what extractToken gives, outcome says whether
\* authService.getCurrentUser throws
AuthVerify(token, outcome) ==
    /\ proc.pc = "serving"
    /\ IF token.t = "Thrown"
       THEN /\ resp' = VerifyResponse(500, FALSE, <<"Verification", "failed:", token.v>>, Absent)
            /\ calls' = <<>>
       ELSE IF Falsy(token)
       THEN /\ resp' = VerifyResponse(400, FALSE,
                            <<"No", "authentication", "token", "provided">>, Absent)
            /\ calls' = <<>>
       ELSE /\ calls' = <<"getCurrentUser">>
            /\ IF outcome = "throws"
               THEN resp' = VerifyResponse(500, FALSE,
                                <<"Verification", "failed:", "service">>, Absent)
               ELSE LET user == proc.sessions[token.v]
                    IN  IF Falsy(user)
                        THEN resp' = VerifyResponse(401, FALSE,
                                         <<"Invalid", "or", "expired", "token">>, Absent)
                        ELSE resp' = VerifyResponse(200, TRUE, <<"Token", "is", "valid">>, user)
    /\ UNCHANGED <<projectVars, proc, dep, sel, admin, dash>>

\* the auth service knows some tokens; no request was made yet
InitVerify ==
    /\ InitProject
    /\ calls = <<>>
    /\ resp = NoResponse
    /\ proc \in [pc : {"serving"}, sessions : [Tokens -> UserResults]]
    /\ dep = [pc |-> "unmounted"]
    /\ sel = [pc |-> "unmounted"]
    /\ admin = [pc |-> "off"]
    /\ dash = [pc |-> "unmounted"]

NextVerify ==
    \E token \in TokenResults, outcome \in {"ok", "throws"} : AuthVerify(token, outcome)

----------------------------------------------------------------------------
(* The DependencySelector component *)

\* number of onApprove calls that are recorded
MaxOnApprove == 2

Platforms == {"web", "mobile"}

\* the ids of the options of a platform
dependencyOptions(platform) ==
    IF platform = "web"
    THEN {"web_next_full", "web_next_fastapi"}
    ELSE {"mobile_next_expo", "mobile_next_fastapi"}

\* lines 80-83: the props and the state at the first render
MountDependencySelector(submitting) ==
    /\ dep.pc = "unmounted"
    /\ dep' = [pc |-> "mounted", submitting |-> submitting, platform |-> "web",
               selectedOption |-> Null, notes |-> EmptyStr, onApprove |-> <<>>]
    /\ UNCHANGED <<projectVars, calls, resp, proc, sel, admin, dash>>

\* the parent renders the component with another value of submitting
SetSubmitting(submitting) ==
    /\ dep.pc = "mounted"
    /\ dep.submitting # submitting
    /\ dep' = [dep EXCEPT !.submitting = submitting]
    /\ UNCHANGED <<projectVars, calls, resp, proc, sel, admin, dash>>

\* a platform button that leaves the selection alone
ClickPlatformKeepsSelection(p) ==
    /\ dep.pc = "mounted"
    /\ dep' = [dep EXCEPT !.platform = p]
    /\ UNCHANGED <<projectVars, calls, resp, proc, sel, admin, dash>>

\* lines 103-106: onClick of a platform button
ClickPlatform(p) ==
    /\ dep.pc = "mounted"
    /\ dep' = [dep EXCEPT !.platform = p, !.selectedOption = Null]
    /\ UNCHANGED <<projectVars, calls, resp, proc, sel, admin, dash>>

\* lines 92, 115-162: the cards of the active platform; onClick of a card's button
ChooseOption(id) ==
    /\ dep.pc = "mounted"
    /\ id \in dependencyOptions(dep.platform)
    /\ dep' = [dep EXCEPT !.selectedOption = Str(id)]
    /\ UNCHANGED <<projectVars, calls, resp, proc, sel, admin, dash>>

\* line 180: onChange of the notes
ChangeNotes(n) ==
    /\ dep.pc = "mounted"
    /\ dep.notes # n
    /\ dep' = [dep EXCEPT !.notes = n]
    /\ UNCHANGED <<projectVars, calls, resp, proc, sel, admin, dash>>

\* lines 85-88: platform is never empty
handleApprove ==
    IF dep.selectedOption = Null
    THEN UNCHANGED dep
    ELSE dep' = [dep EXCEPT !.onApprove =
                     Append(@, [platform |-> dep.platform, option |-> dep.selectedOption.v,
                                notes |-> dep.notes])]

\* line 188: a click on Approve Dependencies; the button takes no click
\* while it is disabled
ClickApprove ==
    /\ dep.pc = "mounted"
    /\ Len(dep.onApprove) < MaxOnApprove
    /\ ~(dep.selectedOption = Null \/ dep.submitting)
    /\ handleApprove
    /\ UNCHANGED <<projectVars, calls, resp, proc, sel, admin, dash>>

NextDep ==
    \/ \E b \in BOOLEAN : MountDependencySelector(b)
    \/ \E b \in BOOLEAN : SetSubmitting(b)
    \/ \E p \in Platforms : ClickPlatform(p)
    \/ \E id \in dependencyOptions("web") \cup dependencyOptions("mobile") : ChooseOption(id)
    \/ \E n \in {EmptyStr, << <<"n", 2>> >>} : ChangeNotes(n)
    \/ ClickApprove

----------------------------------------------------------------------------
(* The StackSelection component *)

\* number of onStackSelect calls that are recorded
MaxOnStackSelect == 2

\* the ids of two of the patterns
patterns == {"web_application", "mobile_application"}

\* what the user types as the custom description: nothing, blanks, a text
\* between blanks
CustomStackInputs == {EmptyStr, << <<" ", 2>> >>, << <<" ", 1>>, <<"c", 3>>, <<" ", 1>> >>}

ReasoningTexts == {EmptyStr, << <<"r", 2>> >>}

\* lines 34-41: the props and the state at the first render
MountStackSelection(selectedStack, isLoading) ==
    /\ sel.pc = "unmounted"
    /\ sel' = [pc |-> "mounted", selectedStack |-> selectedStack, isLoading |-> isLoading,
               customStack |-> EmptyStr, showCustom |-> FALSE, reasoning |-> EmptyStr,
               onStackSelect |-> <<>>]
    /\ UNCHANGED <<projectVars, calls, resp, proc, dep, admin, dash>>

\* the parent renders the component with other props
SetProps(selectedStack, isLoading) ==
    /\ sel.pc = "mounted"
    /\ <<selectedStack, isLoading>> # <<sel.selectedStack, sel.isLoading>>
    /\ sel' = [sel EXCEPT !.selectedStack = selectedStack, !.isLoading = isLoading]
    /\ UNCHANGED <<projectVars, calls, resp, proc, dep, admin, dash>>

\* lines 100-102
handleStackSelect(stackId) ==
    sel' = [sel EXCEPT !.onStackSelect =
                Append(@, [stackId |-> stackId, reasoning |-> Str(sel.reasoning)])]

\* a handler that submits whatever the description is
handleCustomStackUnchecked ==
    sel' = [sel EXCEPT !.onStackSelect =
                Append(@, [stackId |-> "custom", reasoning |-> Str(sel.reasoning)])]

\* lines 104-108
handleCustomStack ==
    IF Trim(sel.customStack) # EmptyStr
    THEN sel' = [sel EXCEPT !.onStackSelect =
                     Append(@, [stackId |-> "custom", reasoning |-> Str(sel.reasoning)])]
    ELSE UNCHANGED sel

\* line 158: a click on the card of a pattern
ClickPattern(id) ==
    /\ sel.pc = "mounted"
    /\ Len(sel.onStackSelect) < MaxOnStackSelect
    /\ handleStackSelect(id)
    /\ UNCHANGED <<projectVars, calls, resp, proc, dep, admin, dash>>

\* lines 258-265: Define Custom Architecture
ClickDefineCustom ==
    /\ sel.pc = "mounted"
    /\ ~sel.showCustom
    /\ sel' = [sel EXCEPT !.showCustom = TRUE]
    /\ UNCHANGED <<projectVars, calls, resp, proc, dep, admin, dash>>

\* lines 268-272: the input of the custom description
ChangeCustomStack(text) ==
    /\ sel.pc = "mounted"
    /\ sel.showCustom
    /\ sel.customStack # text
    /\ sel' = [sel EXCEPT !.customStack = text]
    /\ UNCHANGED <<projectVars, calls, resp, proc, dep, admin, dash>>

\* lines 275-281: Use Custom Architecture; the button takes no click while
\* it is disabled
ClickUseCustom ==
    /\ sel.pc = "mounted"
    /\ sel.showCustom
    /\ Len(sel.onStackSelect) < MaxOnStackSelect
    /\ ~(Trim(sel.customStack) = EmptyStr \/ sel.isLoading)
    /\ handleCustomStack
    /\ UNCHANGED <<projectVars, calls, resp, proc, dep, admin, dash>>

\* lines 282-290: Cancel
ClickCancel ==
    /\ sel.pc = "mounted"
    /\ sel.showCustom
    /\ sel' = [sel EXCEPT !.showCustom = FALSE, !.customStack = EmptyStr]
    /\ UNCHANGED <<projectVars, calls, resp, proc, dep, admin, dash>>

\* line 298: the reasoning card is rendered
ReasoningShown == sel.selectedStack # "" \/ sel.showCustom

\* lines 307-312: the textarea of the reasoning
ChangeReasoning(text) ==
    /\ sel.pc = "mounted"
    /\ ReasoningShown
    /\ sel.reasoning # text
    /\ sel' = [sel EXCEPT !.reasoning = text]
    /\ UNCHANGED <<projectVars, calls, resp, proc, dep, admin, dash>>

\* lines 315-327: Confirm Architecture Choice
ClickConfirm ==
    /\ sel.pc = "mounted"
    /\ ReasoningShown
    /\ Len(sel.onStackSelect) < MaxOnStackSelect
    /\ ~sel.isLoading
    /\ IF sel.selectedStack # ""
       THEN handleStackSelect(sel.selectedStack)
       ELSE IF sel.showCustom
       THEN handleCustomStack
       ELSE UNCHANGED sel
    /\ UNCHANGED <<projectVars, calls, resp, proc, dep, admin, dash>>

\* lines 328-338: Clear Selection
ClickClear ==
    /\ sel.pc = "mounted"
    /\ ReasoningShown
    /\ Len(sel.onStackSelect) < MaxOnStackSelect
    /\ sel' = [sel EXCEPT !.onStackSelect = Append(@, [stackId |-> "", reasoning |-> Absent]),
                          !.reasoning = EmptyStr, !.showCustom = FALSE,
                          !.customStack = EmptyStr]
    /\ UNCHANGED <<projectVars, calls, resp, proc, dep, admin, dash>>

NextSel ==
    \/ \E s \in {""} \cup patterns, l \in BOOLEAN : MountStackSelection(s, l)
    \/ \E s \in {"", "custom"} \cup patterns, l \in BOOLEAN : SetProps(s, l)
    \/ \E id \in patterns : ClickPattern(id)
    \/ ClickDefineCustom
    \/ \E text \in CustomStackInputs : ChangeCustomStack(text)
    \/ ClickUseCustom
    \/ ClickCancel
    \/ \E text \in ReasoningTexts : ChangeReasoning(text)
    \/ ClickConfirm
    \/ ClickClear

----------------------------------------------------------------------------
(* PATCH /admin/users *)

\* number of PATCH /admin/users requests in flight at the same time
MaxPatch == 2

AdminUsers == {"a1", "a2"}

Roles == {"user", "admin", "super_admin"}

\* the userId and the role of a body; "" is a field that is missing
PatchBodies == [userId : {"", "nobody"} \cup AdminUsers, role : {"", "owner"} \cup Roles]

IdlePatch == [pc |-> "idle"]

AdminResponse(kind, status) == [kind |-> kind, status |-> status, success |-> status = 200]

\* the guard of the admin routes: the session carries the user's id and the
\* role the user has when the request is authorized
sessionOf(u) == [id |-> u, role |-> admin.roles[u]]

isSuperAdmin(session) == session.role = "super_admin"

\* lines 49-83: the guard, the body and the checks that need no read
PatchBegin(r, u, body) ==
    /\ admin.pc = "users"
    /\ admin.patch[r].pc = "idle"
    /\ \A q \in DOMAIN admin.patch : q < r => admin.patch[q].pc # "idle"
    /\ LET session == sessionOf(u)
           reject(status) == /\ resp' = AdminResponse("patch", status)
                             /\ UNCHANGED admin
       IN  IF session.role \notin {"admin", "super_admin"} THEN reject(403)
           ELSE IF body.userId = "" \/ body.role = "" THEN reject(400)
           ELSE IF body.role \notin {"user", "admin", "super_admin"} THEN reject(400)
           ELSE IF body.role = "super_admin" /\ ~isSuperAdmin(session) THEN reject(403)
           ELSE IF /\ body.userId = session.id
                   /\ session.role = "super_admin"
                   /\ body.role # "super_admin" THEN reject(400)
           ELSE /\ admin' = [admin EXCEPT !.patch[r] =
                                 [pc |-> "select", session |-> session,
                                  userId |-> body.userId, role |-> body.role]]
                /\ UNCHANGED resp
    /\ UNCHANGED <<projectVars, calls, proc, dep, sel, dash>>

\* a handler that lets every admin modify a super admin
PatchSelectAnyTarget(r, outcome) ==
    /\ admin.pc = "users"
    /\ admin.patch[r].pc = "select"
    /\ IF outcome = "throws"
       THEN /\ resp' = AdminResponse("patch", 500)
            /\ admin' = [admin EXCEPT !.patch[r] = IdlePatch]
       ELSE IF admin.patch[r].userId \notin AdminUsers
       THEN /\ resp' = AdminResponse("patch", 404)
            /\ admin' = [admin EXCEPT !.patch[r] = IdlePatch]
       ELSE /\ admin' = [admin EXCEPT !.patch[r].pc = "update"]
            /\ UNCHANGED resp
    /\ UNCHANGED <<projectVars, calls, proc, dep, sel, dash>>

\* lines 85-102: the read of the target's role and the checks on it
PatchSelect(r, outcome) ==
    /\ admin.pc = "users"
    /\ admin.patch[r].pc = "select"
    /\ IF outcome = "throws"
       THEN /\ resp' = AdminResponse("patch", 500)
            /\ admin' = [admin EXCEPT !.patch[r] = IdlePatch]
       ELSE IF admin.patch[r].userId \notin AdminUsers
       THEN /\ resp' = AdminResponse("patch", 404)
            /\ admin' = [admin EXCEPT !.patch[r] = IdlePatch]
       ELSE IF /\ admin.roles[admin.patch[r].userId] = "super_admin"
               /\ ~isSuperAdmin(admin.patch[r].session)
       THEN /\ resp' = AdminResponse("patch", 403)
            /\ admin' = [admin EXCEPT !.patch[r] = IdlePatch]
       ELSE /\ admin' = [admin EXCEPT !.patch[r].pc = "update"]
            /\ UNCHANGED resp
    /\ UNCHANGED <<projectVars, calls, proc, dep, sel, dash>>

\* lines 104-116: the update and the response
PatchUpdate(r, outcome) ==
    /\ admin.pc = "users"
    /\ admin.patch[r].pc = "update"
    /\ IF outcome = "throws"
       THEN /\ resp' = AdminResponse("patch", 500)
            /\ admin' = [admin EXCEPT !.patch[r] = IdlePatch]
       ELSE /\ resp' = AdminResponse("patch", 200)
            /\ admin' = [admin EXCEPT !.patch[r] = IdlePatch,
                                      !.roles[admin.patch[r].userId] = admin.patch[r].role]
    /\ UNCHANGED <<projectVars, calls, proc, dep, sel, dash>>

\* a users table with a super admin in it, and slots requests in flight at most
InitPatch(slots) ==
    /\ InitProject
    /\ calls = <<>>
    /\ resp = NoResponse
    /\ proc = [pc |-> "off"]
    /\ dep = [pc |-> "unmounted"]
    /\ sel = [pc |-> "unmounted"]
    /\ dash = [pc |-> "unmounted"]
    /\ \E roles \in [AdminUsers -> Roles] :
          /\ \E u \in AdminUsers : roles[u] = "super_admin"
          /\ admin = [pc |-> "users", roles |-> roles, patch |-> [r \in 1..slots |-> IdlePatch]]

NextPatch ==
    \/ \E r \in DOMAIN admin.patch, u \in AdminUsers, body \in PatchBodies : PatchBegin(r, u, body)
    \/ \E r \in DOMAIN admin.patch, outcome \in {"ok", "throws"} : PatchSelect(r, outcome)
    \/ \E r \in DOMAIN admin.patch, outcome \in {"ok", "throws"} : PatchUpdate(r, outcome)

----------------------------------------------------------------------------
(* The middleware *)

publicRoutes == {"/", "/sign-in", "/sign-up"}

\* the pathnames of the requests: the public ones, near misses of them,
\* and protected ones
Pathnames == publicRoutes \cup {"/sign-in/", "/Sign-up", "/dashboard", "/project/create"}

\* a public route also with a slash at its end
isPublicLoose(pathname) == pathname \in publicRoutes \cup {"/sign-in/"}

\* publicRoutes.includes(pathname)
isPublic(pathname) == pathname \in publicRoutes

\* NextResponse.next(), NextResponse.redirect(signInUrl), before any header is set
NextResponseNext == [kind |-> "next", location |-> "", callbackUrl |-> "", headers |-> <<>>]

NextResponseRedirect(pathname) ==
    [kind |-> "redirect", location |-> "/sign-in", callbackUrl |-> pathname, headers |-> <<>>]

\* the headers set whatever NODE_ENV is, with their values
BaseHeaders ==
    [h \in {"Content-Security-Policy", "X-Frame-Options", "X-Content-Type-Options",
            "X-XSS-Protection", "Referrer-Policy", "Permissions-Policy",
            "Cross-Origin-Embedder-Policy", "Cross-Origin-Opener-Policy",
            "Cross-Origin-Resource-Policy"} |->
        CASE h = "Content-Security-Policy" ->
                 <<"default-src 'self'", "script-src 'self' 'unsafe-inline' 'unsafe-eval'",
                   "style-src 'self' 'unsafe-inline'", "img-src 'self' data: https:",
                   "font-src 'self' data:",
                   "connect-src 'self' https://generativelanguage.googleapis.com",
                   "frame-ancestors 'none'", "form-action 'self'", "base-uri 'self'",
                   "object-src 'none'", "media-src 'self'", "manifest-src 'self'",
                   "worker-src 'self'", "upgrade-insecure-requests">>
          [] h = "X-Frame-Options" -> <<"DENY">>
          [] h = "X-Content-Type-Options" -> <<"nosniff">>
          [] h = "X-XSS-Protection" -> <<"1", "mode=block">>
          [] h = "Referrer-Policy" -> <<"strict-origin-when-cross-origin">>
          [] h = "Permissions-Policy" ->
                 <<"geolocation=()", "microphone=()", "camera=()", "payment=()", "usb=()",
                   "magnetometer=()", "gyroscope=()", "accelerometer=()">>
          [] h = "Cross-Origin-Embedder-Policy" -> <<"require-corp">>
          [] h = "Cross-Origin-Opener-Policy" -> <<"same-origin">>
          [] h = "Cross-Origin-Resource-Policy" -> <<"same-origin">>]

Hsts ==
    [h \in {"Strict-Transport-Security"} |->
        <<"max-age=31536000", "includeSubDomains", "preload">>]

\* headers that force HTTPS whatever NODE_ENV is
addSecurityHeadersHstsAlways(response) ==
    [response EXCEPT !.headers = BaseHeaders @@ Hsts]

\* part_011, lines 10-113
addSecurityHeaders(response) ==
    [response EXCEPT !.headers =
        IF proc.env.NODE_ENV = Str("production") THEN BaseHeaders @@ Hsts ELSE BaseHeaders]

\* the response with the request it answers and the file that answered it
Answered(by, pathname, response) ==
    [kind |-> response.kind, by |-> by, pathname |-> pathname,
     location |-> response.location, callbackUrl |-> response.callbackUrl,
     headers |-> response.headers]

\* part_011, lines 115-145; lookup is what the session lookup gives
authMiddleware(pathname, lookup) ==
    /\ proc.pc = "middleware"
    /\ IF isPublic(pathname)
       THEN /\ resp' = Answered("part_011", pathname, addSecurityHeaders(NextResponseNext))
            /\ calls' = <<>>
       ELSE /\ calls' = <<"get-session">>
            /\ resp' =
                 CASE lookup = "throws" ->
                          Answered("part_011", pathname, [NextResponseNext EXCEPT !.kind = "thrown"])
                   [] lookup = "no session" ->
                          Answered("part_011", pathname,
                                   addSecurityHeaders(NextResponseRedirect(pathname)))
                   [] OTHER ->
                          Answered("part_011", pathname, addSecurityHeaders(NextResponseNext))
    /\ UNCHANGED <<projectVars, proc, dep, sel, admin, dash>>

\* src/middleware.ts, lines 7-34: the same routing, no headers
authMiddlewareSrc(pathname, lookup) ==
    /\ proc.pc = "middleware"
    /\ IF isPublic(pathname)
       THEN /\ resp' = Answered("middleware.ts", pathname, NextResponseNext)
            /\ calls' = <<>>
       ELSE /\ calls' = <<"get-session">>
            /\ resp' =
                 CASE lookup = "throws" ->
                          Answered("middleware.ts", pathname,
                                   [NextResponseNext EXCEPT !.kind = "thrown"])
                   [] lookup = "no session" ->
                          Answered("middleware.ts", pathname, NextResponseRedirect(pathname))
                   [] OTHER -> Answered("middleware.ts", pathname, NextResponseNext)
    /\ UNCHANGED <<projectVars, proc, dep, sel, admin, dash>>

InitMw ==
    /\ InitProject
    /\ calls = <<>>
    /\ resp = NoResponse
    /\ proc \in [pc : {"middleware"},
                  env : [NODE_ENV : {Absent, Str("production"), Str("development"), Str("test")}]]
    /\ dep = [pc |-> "unmounted"]
    /\ sel = [pc |-> "unmounted"]
    /\ admin = [pc |-> "off"]
    /\ dash = [pc |-> "unmounted"]

NextMw ==
    \/ \E pathname \in Pathnames, lookup \in {"session", "no session", "throws"} :
          authMiddleware(pathname, lookup)
    \/ \E pathname \in Pathnames, lookup \in {"session", "no session", "throws"} :
          authMiddlewareSrc(pathname, lookup)

----------------------------------------------------------------------------
(* POST and DELETE /admin/settings *)

\* number of POST /admin/settings requests in flight at the same time
MaxPost == 2

\* the key the POST requests write, and a key that never has a row
SettingKey == "llm_model"
OtherKey == "llm_temperature"

\* the values of the bodies: a number, a boolean, a string, null, and none
SettingValues ==
    {[t |-> "number", v |-> 7], [t |-> "boolean", v |-> TRUE],
     [t |-> "text", v |-> "gemini"], Null, Absent}

\* String(value)
StringOf(value) ==
    CASE value.t = "number" -> ToString(value.v)
      [] value.t = "boolean" -> IF value.v THEN "true" ELSE "false"
      [] value.t = "text" -> value.v
      [] value.t = "null" -> "null"
      [] OTHER -> "undefined"

\* the rows of the settings table with the key
RowsOf(key) == SelectSeq(admin.rows, LAMBDA row : row.key = key)

\* lines 153-163: the body and its check
PostBegin(r, key, value) ==
    /\ admin.pc = "settings"
    /\ admin.post[r].pc = "idle"
    /\ \A q \in DOMAIN admin.post : q < r => admin.post[q].pc # "idle"
    /\ IF key = "" \/ value = Absent
       THEN /\ resp' = AdminResponse("post", 400)
            /\ UNCHANGED admin
       ELSE /\ admin' = [admin EXCEPT !.post[r] = [pc |-> "select", key |-> key, value |-> value],
                                      !.posted = @ \cup {StringOf(value)}]
            /\ UNCHANGED resp
    /\ UNCHANGED <<projectVars, calls, proc, dep, sel, dash>>

\* lines 165-169: the select
PostSelect(r) ==
    /\ admin.pc = "settings"
    /\ admin.post[r].pc = "select"
    /\ admin' = [admin EXCEPT !.post[r] =
                     [pc |-> "write", key |-> admin.post[r].key, value |-> admin.post[r].value,
                      existing |-> Len(RowsOf(admin.post[r].key))]]
    /\ UNCHANGED <<projectVars, calls, resp, proc, dep, sel, dash>>

\* lines 171-184: the update or the insert, and the response; an insert of
\* a key that has a row by now fails when the table's key is unique
PostWrite(r) ==
    /\ admin.pc = "settings"
    /\ admin.post[r].pc = "write"
    /\ LET key == admin.post[r].key
           value == StringOf(admin.post[r].value)
       IN  IF admin.post[r].existing > 0
           THEN /\ admin' = [admin EXCEPT
                        !.post[r] = [pc |-> "idle"],
                        !.rows = [i \in DOMAIN @ |->
                                     IF @[i].key = key THEN [key |-> key, value |-> value]
                                     ELSE @[i]]]
                /\ resp' = AdminResponse("post", 200)
           ELSE IF admin.uniqueKey /\ Len(RowsOf(key)) > 0
           THEN /\ admin' = [admin EXCEPT !.post[r] = [pc |-> "idle"]]
                /\ resp' = AdminResponse("post", 500)
           ELSE /\ admin' = [admin EXCEPT
                        !.post[r] = [pc |-> "idle"],
                        !.rows = Append(@, [key |-> key, value |-> value])]
                /\ resp' = AdminResponse("post", 200)
    /\ UNCHANGED <<projectVars, calls, proc, dep, sel, dash>>

\* lines 194-216: DELETE
DeleteSetting(key) ==
    /\ admin.pc = "settings"
    /\ IF key = ""
       THEN /\ resp' = AdminResponse("delete", 400)
            /\ UNCHANGED admin
       ELSE /\ admin' = [admin EXCEPT !.rows = SelectSeq(@, LAMBDA row : row.key # key)]
            /\ resp' = AdminResponse("delete", 200)
    /\ UNCHANGED <<projectVars, calls, proc, dep, sel, dash>>

\* an empty table or one row for the key; the schema of the table is not
\* known, so its key is unique or not
InitSettings ==
    /\ InitProject
    /\ calls = <<>>
    /\ resp = NoResponse
    /\ proc = [pc |-> "off"]
    /\ dep = [pc |-> "unmounted"]
    /\ sel = [pc |-> "unmounted"]
    /\ dash = [pc |-> "unmounted"]
    /\ admin \in [pc : {"settings"},
                   uniqueKey : BOOLEAN,
                   rows : {<<>>, <<[key |-> SettingKey, value |-> "old"]>>},
                   post : {[r \in 1..MaxPost |-> [pc |-> "idle"]]},
                   posted : {{}}]

NextSettings ==
    \/ \E r \in DOMAIN admin.post, key \in {"", SettingKey}, value \in SettingValues :
          PostBegin(r, key, value)
    \/ \E r \in DOMAIN admin.post : PostSelect(r)
    \/ \E r \in DOMAIN admin.post : PostWrite(r)
    \/ \E key \in {"", SettingKey, OtherKey} : DeleteSetting(key)

----------------------------------------------------------------------------
(* The Dashboard component: the delete flow *)

\* number of fetchProjects calls in flight at the same time
MaxFetch == 2

\* the slugs of the projects on the server when the page is opened
DashProjects == {"p1", "p2"}

\* lines 249-278: the state at the first render, with the fetchProjects of
\* useEffect in flight
InitDash ==
    /\ InitProject
    /\ calls = <<>>
    /\ resp = NoResponse
    /\ proc = [pc |-> "off"]
    /\ dep = [pc |-> "unmounted"]
    /\ sel = [pc |-> "unmounted"]
    /\ admin = [pc |-> "off"]
    /\ dash = [pc |-> "mounted", server |-> DashProjects, projects |-> {}, loading |-> TRUE,
               error |-> Null, deleteDialogOpen |-> FALSE, selectedProjectToDelete |-> "",
               deleting |-> FALSE, deletes |-> <<>>, fetches |-> 1]

\* lines 259-276: the rest of fetchProjects, when its response is there
FetchProjectsResponse(outcome) ==
    /\ dash.pc = "mounted"
    /\ dash.fetches > 0
    /\ dash' = [dash EXCEPT
           !.fetches = @ - 1,
           !.loading = FALSE,
           !.projects = IF outcome = "success" THEN dash.server ELSE @,
           !.error = IF outcome = "success" THEN @ ELSE Str("Failed to fetch projects")]
    /\ UNCHANGED <<projectVars, calls, resp, proc, dep, sel, admin>>

\* lines 289-293, 380-400: the delete button of a project of the list
handleDeleteClick(project) ==
    /\ dash.pc = "mounted"
    /\ ~dash.loading
    /\ project \in dash.projects
    /\ dash' = [dash EXCEPT !.selectedProjectToDelete = project, !.deleteDialogOpen = TRUE]
    /\ UNCHANGED <<projectVars, calls, resp, proc, dep, sel, admin>>

\* line 449: the dialog is dismissed; line 460: Cancel, disabled while deleting
CloseDeleteDialog(how) ==
    /\ dash.pc = "mounted"
    /\ dash.deleteDialogOpen
    /\ how = "cancel" => ~dash.deleting
    /\ dash' = [dash EXCEPT !.deleteDialogOpen = FALSE]
    /\ UNCHANGED <<projectVars, calls, resp, proc, dep, sel, admin>>

\* a Delete Project button that takes clicks while a request is in flight
handleConfirmDeleteAgain ==
    /\ dash.pc = "mounted"
    /\ dash.deleteDialogOpen
    /\ Len(dash.deletes) < 2
    /\ dash.fetches < MaxFetch
    /\ IF dash.selectedProjectToDelete = ""
       THEN UNCHANGED dash
       ELSE dash' = [dash EXCEPT !.deleting = TRUE,
                                 !.deletes = Append(@, dash.selectedProjectToDelete)]
    /\ UNCHANGED <<projectVars, calls, resp, proc, dep, sel, admin>>

\* lines 295-303, 467-468: Delete Project, disabled while deleting; the
\* handler up to its fetch
handleConfirmDelete ==
    /\ dash.pc = "mounted"
    /\ dash.deleteDialogOpen
    /\ ~dash.deleting
    /\ dash.fetches < MaxFetch
    /\ IF dash.selectedProjectToDelete = ""
       THEN UNCHANGED dash
       ELSE dash' = [dash EXCEPT !.deleting = TRUE,
                                 !.deletes = Append(@, dash.selectedProjectToDelete)]
    /\ UNCHANGED <<projectVars, calls, resp, proc, dep, sel, admin>>

\* lines 304-320: the rest of handleConfirmDelete, when the response of
\* the oldest request is there
DeleteResponse(outcome) ==
    /\ dash.pc = "mounted"
    /\ dash.deletes # <<>>
    /\ IF outcome = "success"
       THEN dash' = [dash EXCEPT
                !.server = @ \ {Head(dash.deletes)},
                !.deletes = Tail(@),
                !.deleteDialogOpen = FALSE,
                !.selectedProjectToDelete = "",
                !.loading = TRUE,
                !.fetches = @ + 1,
                !.deleting = FALSE]
       ELSE dash' = [dash EXCEPT
                !.deletes = Tail(@),
                !.error = IF outcome = "refused with a reason"
                          THEN Str("Project not found")
                          ELSE Str("Failed to delete project"),
                !.deleting = FALSE]
    /\ UNCHANGED <<projectVars, calls, resp, proc, dep, sel, admin>>

DeleteOutcomes == {"success", "refused with a reason", "refused", "throws"}

NextDash ==
    \/ \E outcome \in {"success", "refused", "throws"} : FetchProjectsResponse(outcome)
    \/ \E project \in DashProjects : handleDeleteClick(project)
    \/ \E how \in {"cancel", "dismiss"} : CloseDeleteDialog(how)
    \/ handleConfirmDelete
    \/ \E outcome \in DeleteOutcomes : DeleteResponse(outcome)

----------------------------------------------------------------------------
(* The specification *)

Init ==
    /\ InitProject
    /\ calls = <<>>
    /\ InitComponents

Next ==
    \/ /\ \E u \in Creators, name \in NameInputs, o \in {"ok", "create throws", "save throws"} :
             CreateProject(u, name, o)
       /\ UNCHANGED <<calls, componentVars>>
    \/ /\ \E u \in Users : AdvancePhase(u)
       /\ UNCHANGED <<calls, componentVars>>
    \/ /\ \E u \in Users : ApproveDependencies(u)
       /\ UNCHANGED <<calls, componentVars>>
    \/ /\ \E u \in Users, n \in Phases \cup {UnknownPhase}, f \in 0..2 : ExecutePhase(u, n, f)
       /\ UNCHANGED <<calls, componentVars>>
    \/ /\ \E r \in ReqIds, u \in Users, b \in ApproveBodies : ApproveStackBegin(r, u, b)
       /\ UNCHANGED <<calls, componentVars>>
    \/ /\ \E r \in ReqIds, o \in {"ok", "first throws", "second throws"} : ApproveStackWrite(r, o)
       /\ UNCHANGED <<calls, componentVars>>
    \/ /\ \E r \in ReqIds, o \in {"ok", "lookup throws", "first throws", "second throws"} :
             ApproveStackPersistArtifacts(r, o)
       /\ UNCHANGED <<calls, componentVars>>
    \/ /\ \E r \in ReqIds, o \in {"ok", "throws"} : ApproveStackSaveMetadata(r, o)
       /\ UNCHANGED <<calls, componentVars>>
    \/ /\ \E r \in ReqIds, o \in {"ok", "throws"} : ApproveStackPersistProject(r, o)
       /\ UNCHANGED <<calls, componentVars>>

Spec == Init /\ [][Next]_vars

\* the routes on /projects and /projects/{slug}
SpecRoutes == Init /\ [][NextRoutes]_vars

\* the artifact route over any stored artifacts
SpecArtifact == InitArtifact /\ [][NextArtifact]_vars

\* the start of the process under any environment
SpecEnv == InitEnv /\ [][NextEnv]_vars

\* approve-stack requests of the owner that overlap
SpecRace == InitRace /\ [][NextRace]_vars

\* requests to POST /api/auth/verify
SpecVerify == InitVerify /\ [][NextVerify]_vars

\* a user at the DependencySelector
SpecDep == Init /\ [][NextDep]_vars

\* a user at the StackSelection
SpecSel == Init /\ [][NextSel]_vars

\* PATCH /admin/users, the requests served one after the other
SpecPatchSeq == InitPatch(1) /\ [][NextPatch]_vars

\* PATCH /admin/users, the requests interleaved at their awaits
SpecPatch == InitPatch(MaxPatch) /\ [][NextPatch]_vars

\* requests through the middleware
SpecMw == InitMw /\ [][NextMw]_vars

\* POST and DELETE /admin/settings, the requests interleaved at their awaits
SpecSettings == InitSettings /\ [][NextSettings]_vars

\* a user at the Dashboard; every DELETE request gets its response or fails
SpecDash ==
    /\ InitDash
    /\ [][NextDash]_vars
    /\ WF_vars(\E outcome \in DeleteOutcomes : DeleteResponse(outcome))

----------------------------------------------------------------------------
(* Properties *)

ContainsWord(text, w) == \E i \in DOMAIN text : text[i] = w

StackDocs == {StackDecision, StackRationale}

\* C1: the current phase of a project is always one of the six phases, and
\* from one stored metadata to the next its position in the phase order
\* never goes down.
C1_PhaseNeverRegresses ==
    [][(meta.exists /\ meta'.exists) =>
          /\ meta'.current_phase \in Phases
          /\ Rank(meta'.current_phase) >= Rank(meta.current_phase)]_vars

\* C2: whenever the current phase of a project changes, it changes to the
\* phase that follows it in the phase order, and it never changes once it
\* is DONE.
C2_OnlyToSuccessor ==
    [][(meta.exists /\ meta'.exists /\ meta'.current_phase # meta.current_phase) =>
          /\ meta.current_phase # "DONE"
          /\ meta'.current_phase = NextPhase(meta.current_phase)]_vars

\* C3: a phase execution for a phase name that the phase specification does
\* not list ends in an error, runs no executor (so makes no LLM call) and
\* writes no artifact.
C3_UnknownPhaseRejected ==
    [][\A u \in Users, f \in 0..2 :
          ExecutePhase(u, UnknownPhase, f) =>
              /\ ~last'.success
              /\ ContainsWord(last'.error, "Unknown")
              /\ last'.run.events = <<>>
              /\ last'.run.returned = {}
              /\ fsArt' = fsArt
              /\ dbArt' = dbArt]_vars

C3_Witness ==
    /\ last.kind = "execute-phase"
    /\ last.run.phase = UnknownPhase
    /\ ~last.success
    /\ meta.exists

\* C4: a phase execution in which an executor fails returns the failure and
\* leaves artifact storage as it was before the request: nothing the request
\* produced stays stored.
C4_NoPartialPersistence ==
    [][\A u \in Users, n \in Phases, f \in 1..2 :
          ExecutePhase(u, n, f) =>
              /\ ~last'.success
              /\ fsArt' = fsArt]_vars

\* C5: in a SPEC phase execution the Architect starts only after the PM
\* executor has returned and its PRD is saved, the artifacts handed to the
\* Architect hold the PRD of this request, and a run that succeeds returns
\* PRD.md, data-model.md and api-spec.json.
C5_PMBeforeArchitect ==
    (last.kind = "execute-phase" /\ last.run.phase = "SPEC") =>
        LET ev == last.run.events
        IN  /\ \A i \in DOMAIN ev :
                  ev[i] = <<"run", "Architect">> =>
                      /\ \E j \in 1..(i - 1) : ev[j] = <<"saved", "PM">>
                      /\ \A k \in PMOutputs :
                            [key |-> k, origin |-> "request"] \in last.run.architectInput
            /\ last.success =>
                  /\ last.run.returned = PMOutputs \cup ArchitectOutputs
                  /\ \E i \in DOMAIN ev : ev[i] = <<"saved", "Architect">>

C5_Witness ==
    /\ last.kind = "execute-phase"
    /\ last.run.phase = "SPEC"
    /\ last.success
    /\ \A k \in PMOutputs \cup ArchitectOutputs : Stored(fsArt, k)

\* C6: an artifact is stored under a phase only if that phase has been the
\* project's current phase.
C6_ArtifactsOnlyForReachedPhases ==
    \A k \in ArtKeys : (Stored(fsArt, k) \/ Stored(dbArt, k)) => k[1] \in reached

\* C7: a request that has set stack_approved has persisted both of its stack
\* documents, to artifact storage and to the relational store.
C7_ApprovedOnlyAfterBothPersisted ==
    \A r \in ReqIds :
        req[r].pc = "persist" =>
            /\ stackDecisionContent(r) \in fsArt[StackDecision].versions
            /\ stackRationaleContent(r) \in fsArt[StackRationale].versions
            /\ stackDecisionContent(r) \in dbArt[StackDecision].versions
            /\ stackRationaleContent(r) \in dbArt[StackRationale].versions

FailsSchema(body) ==
    /\ body.json
    /\ \/ body.stack_choice = Str(EmptyStr)
       \/ IsString(body.reasoning) /\ StrLen(body.reasoning.v) > 2000

\* the body is JSON and the project is not there or belongs to someone else
NotFound(u, body) ==
    /\ body.json
    /\ ~meta.exists \/ meta.created_by_id # u

\* C9: an approve-stack request is answered with 400 when its body fails the
\* schema (an empty stack_choice, reasoning of more than 2000 characters) and
\* with 400 or 404 when the project is not there or not the session user's
\* (404 when the body is valid); in both cases it writes no artifact,
\* nothing to the relational store and nothing to the metadata, and no
\* request stays in flight.
C9_RefusedWritesNothing ==
    [][\A r \in ReqIds, u \in Users, b \in ApproveBodies :
          ((FailsSchema(b) \/ NotFound(u, b)) /\ ApproveStackBegin(r, u, b)) =>
              /\ last'.kind = "approve-stack"
              /\ last'.status \in {400, 404}
              /\ FailsSchema(b) => last'.status = 400
              /\ (b.stack_choice = Str(ChoiceA) /\ b.reasoning = Absent)
                    => last'.status = 404
              /\ UNCHANGED <<meta, dbProj, fsArt, dbArt, req>>]_vars

C9_Witness ==
    /\ last.kind = "approve-stack"
    /\ last.status = 404
    /\ meta.exists
    /\ \A k \in StackDocs : ~Stored(fsArt, k)

\* C10: POST /projects with a name that is empty, null or absent is answered
\* with 400 and an error that contains "required", and neither the row nor
\* the metadata of a project is created.
C10_NameRequired ==
    [][\A u \in Creators, name \in {Absent, Null, Str(EmptyStr)},
          o \in {"ok", "create throws", "save throws"} :
          CreateProject(u, name, o) =>
              /\ last'.kind = "create"
              /\ last'.status = 400
              /\ ContainsWord(last'.error, "required")
              /\ UNCHANGED <<meta, dbProj>>]_vars

C10_Witness ==
    /\ last.kind = "create"
    /\ last.status = 400
    /\ ~meta.exists
    /\ ~dbProj.exists

\* the slug has no project
NoSuchProject(slug) == slug # ProjectSlug \/ ~meta.exists

\* C11: for a slug that has no project, GET, PUT and DELETE on
\* /projects/{slug} are each answered with 404 and success false, and none
\* of them changes the metadata, the project row or an artifact, or calls a
\* service that writes.
C11_NoProjectIs404 ==
    [][\A slug \in Slugs, o \in {"ok", "save throws", "db throws", "files throw"} :
          (NoSuchProject(slug)
              /\ (GetSingleProject(slug) \/ UpdateProject(slug, o) \/ DeleteProject(slug, o))) =>
              /\ last'.status = 404
              /\ ~last'.success
              /\ CallsOf(calls') \cap WriteCalls = {}
              /\ UNCHANGED <<meta, dbProj, fsArt, dbArt>>]_vars

C11_Witness ==
    /\ last.kind = "delete"
    /\ last.status = 404
    /\ meta.exists /\ dbProj.exists
    /\ \E k \in ArtKeys : Stored(fsArt, k)

\* C12: a request to GET or POST /projects that the rate limiter denies is
\* answered with 429 and does not reach the handler: it calls no service of
\* the relational store or the files, and changes neither the project row
\* nor the metadata.
C12_DeniedNeverReachesHandler ==
    [][\A u \in Creators, name \in NameInputs,
          o \in {"ok", "create throws", "save throws", "list throws"} :
          (PostProjects(u, name, FALSE, o) \/ ListProjects(FALSE, o)) =>
              /\ last'.status = 429
              /\ CallsOf(calls') \cap ServiceCalls = {}
              /\ UNCHANGED <<meta, dbProj, fsArt, dbArt>>]_vars

C12_Witness ==
    /\ last.kind = "create"
    /\ last.status = 429
    /\ calls = <<>>
    /\ ~dbProj.exists /\ ~meta.exists

\* C13: a step of an approve-stack request in which a call to the stores
\* fails ends the request there, with a response of status 500, success
\* false and an error text; the request does not go on to a success
\* response.
C13_CaughtFailureIs500 ==
    [][\A r \in ReqIds :
          \/ \E o \in {"first throws", "second throws"} : ApproveStackWrite(r, o)
          \/ \E o \in {"lookup throws", "first throws", "second throws"} :
                /\ ApproveStackPersistArtifacts(r, o)
                /\ (o = "lookup throws" \/ getProjectBySlug(req[r].user).exists)
          \/ ApproveStackSaveMetadata(r, "throws")
          \/ ApproveStackPersistProject(r, "throws")
          => /\ last'.kind = "approve-stack"
             /\ last'.status = 500
             /\ ~last'.success
             /\ last'.error # <<>>
             /\ req'[r].pc = "idle"]_vars

\* the content type each of the names is to be served with
ExpectedContentType(name) ==
    CASE name = NameJson -> "application/json"
      [] name = NameMd -> "text/markdown"
      [] name = NameJsonMd -> "text/markdown"
      [] name = NameTxt -> "text/plain"
      [] name = NameNoDot -> "text/plain"
      [] name = NameUpper -> "text/plain"

\* C14: a GET of a stored artifact of an existing project whose read
\* succeeds is answered with 200, the stored content as it is, and the
\* content type application/json for a name that ends in .json,
\* text/markdown for one that ends in .md, and text/plain for any other.
C14_ContentTypeByExtension ==
    [][\A name \in GetNames :
          (GetArtifact(ProjectSlug, GetPhase, name, "ok")
              /\ meta.exists /\ Stored(fsArt, <<GetPhase, name>>)) =>
              /\ resp'.status = 200
              /\ resp'.body = fsArt[<<GetPhase, name>>].latest
              /\ resp'.body \in fsArt[<<GetPhase, name>>].versions
              /\ resp'.contentType = ExpectedContentType(name)]_vars

C14_Witness ==
    /\ resp.kind = "artifact"
    /\ resp.status = 200
    /\ resp.filename = NameJsonMd
    /\ resp.contentType = "text/markdown"
    /\ resp.body = SecondVersion

\* C15: a GET for a slug without a project is answered with 404 and
\* attempts no artifact read; a GET for an artifact that is not stored is
\* answered with 404; a GET whose read of a stored artifact fails is
\* answered with 500.
C15_NotFoundApartFromFaults ==
    [][\A slug \in Slugs, name \in GetNames, o \in {"ok", "read throws"} :
          GetArtifact(slug, GetPhase, name, o) =>
              IF NoSuchProject(slug)
              THEN resp'.status = 404 /\ "readArtifact" \notin CallsOf(calls')
              ELSE IF ~Stored(fsArt, <<GetPhase, name>>)
              THEN resp'.status = 404
              ELSE IF o = "read throws"
              THEN resp'.status = 500
              ELSE resp'.status = 200]_vars

\* a required variable is missing or malformed: the database connection
\* string, the auth secret (neither name gives one of 32 characters), the
\* generative-API key, or the public app URL
RequiredEnvBad(e) ==
    \/ ~(IsString(e.DATABASE_URL) /\ e.DATABASE_URL.v.url
            /\ e.DATABASE_URL.v.scheme \in {"postgres", "postgresql"})
    \/ \A n \in {"BETTER_AUTH_SECRET", "AUTH_SECRET"} :
            ~(IsString(e[n]) /\ StrLen(e[n].v) >= 32)
    \/ \E n \in {"BETTER_AUTH_SECRET", "AUTH_SECRET"} :
            IsString(e[n]) /\ StrLen(e[n].v) < 32
    \/ ~(IsString(e.GEMINI_API_KEY) /\ StrLen(e.GEMINI_API_KEY.v) >= 1)
    \/ ~(IsString(e.NEXT_PUBLIC_APP_URL) /\ e.NEXT_PUBLIC_APP_URL.v.url)

\* C16: a process started with a required variable missing or malformed
\* never has its configuration exported and never serves a request: it is
\* still starting, or it has exited with a code that is not 0; a process
\* started with all of them valid does not exit.
C16_BadEnvExitsAtStart ==
    /\ proc.pc # "off" /\ RequiredEnvBad(proc.env) =>
          /\ proc.pc \in {"start", "exited"}
          /\ ~proc.exported
          /\ proc.served = 0
          /\ proc.pc = "exited" => proc.exitCode # 0
    /\ proc.pc # "off" /\ ~RequiredEnvBad(proc.env) => proc.pc # "exited"

\* another request is in flight
OtherInFlight(r) == \E q \in DOMAIN req : q # r /\ req[q].pc # "idle"

\* C17: approve-stack requests that overlap are neither turned away nor made
\* to wait: a valid request of the owner that arrives while another one is
\* in flight passes its checks, and a request in flight can always take its
\* next step, whatever the other one is doing.
C17_NoCoordination ==
    [][/\ \A r \in RaceIds, b \in RaceBodies :
             (OtherInFlight(r) /\ ApproveStackBegin(r, "u1", b)) => req'[r].pc = "write"
       /\ \A r \in RaceIds :
             /\ req[r].pc = "write" => ENABLED ApproveStackWrite(r, "ok")
             /\ req[r].pc = "dbart" => ENABLED ApproveStackPersistArtifacts(r, "ok")
             /\ req[r].pc = "savemeta" => ENABLED ApproveStackSaveMetadata(r, "ok")
             /\ req[r].pc = "persist" => ENABLED ApproveStackPersistProject(r, "ok")]_vars

\* both requests were answered with 200; the newest documents are those of
\* one request, the metadata and the project row those of the other
C17_Witness ==
    /\ approvals = 2
    /\ \A r \in RaceIds : req[r].pc = "idle"
    /\ \A k \in StackDocs : Cardinality(fsArt[k].versions) = 2
    /\ Latest(fsArt, StackDecision).template # meta.stack_choice.v
    /\ Latest(fsArt, StackRationale).template # meta.stack_choice.v
    /\ dbProj.stack_choice = meta.stack_choice

\* the status the four outcomes give a request
VerifyStatus(token, outcome) ==
    IF token.t = "Thrown" THEN 500
    ELSE IF Falsy(token) THEN 400
    ELSE IF outcome = "throws" THEN 500
    ELSE IF proc.sessions[token.v] = Null THEN 401
    ELSE 200

\* C18: POST /api/auth/verify answers 400 when no token is provided, and
\* then the auth service was not called; 401 when the token resolves to no
\* user; 200 with the user when it resolves to one; 500 when the token
\* extraction or the auth service throws. success is true for the 200 only.
C18_VerifyOutcomes ==
    [][\A token \in TokenResults, outcome \in {"ok", "throws"} :
          AuthVerify(token, outcome) =>
              /\ resp'.status = VerifyStatus(token, outcome)
              /\ resp'.success = (resp'.status = 200)
              /\ resp'.status = 400 => calls' = <<>>
              /\ resp'.status = 200 => resp'.user = proc.sessions[token.v]
              /\ resp'.status # 200 => resp'.user = Absent]_vars

\* a request without a token was answered 400 and the auth service, which
\* knows a token, was not called
C18_Witness ==
    /\ resp.kind = "verify"
    /\ resp.status = 400
    /\ ~resp.success
    /\ calls = <<>>
    /\ \E t \in Tokens : proc.sessions[t] # Null

NewStackSelect == sel'.onStackSelect[Len(sel'.onStackSelect)]

CustomBlank == Trim(sel.customStack) = EmptyStr

\* C20 as stated: onStackSelect('custom', reasoning) is called only while
\* the custom description is not blank after trimming; while the custom
\* input is shown with a blank description neither Use Custom Architecture
\* nor Confirm calls onStackSelect; Cancel hides the custom input and clears
\* the description.
C20_BlankCustomNeverSubmits ==
    [][sel.pc = "mounted" =>
          /\ (sel'.onStackSelect # sel.onStackSelect /\ NewStackSelect.stackId = "custom") =>
                 /\ ~CustomBlank
                 /\ NewStackSelect.reasoning = Str(sel.reasoning)
          /\ (sel.showCustom /\ CustomBlank /\ (ClickUseCustom \/ ClickConfirm)) =>
                 sel'.onStackSelect = sel.onStackSelect
          /\ ClickCancel => (~sel'.showCustom /\ sel'.customStack = EmptyStr)]_vars

\* C20, amended: Use Custom Architecture calls onStackSelect('custom',
\* reasoning) and only with a description that is not blank after trimming;
\* while no stack is selected Confirm does the same and calls nothing for a
\* blank description; while a stack is selected Confirm calls onStackSelect
\* with the selected stack whatever the description is; Cancel hides the
\* custom input and clears the description.
C20_CustomNeedsDescriptionUnlessSelected ==
    [][sel.pc = "mounted" =>
          /\ ClickUseCustom =>
                 /\ ~CustomBlank
                 /\ NewStackSelect = [stackId |-> "custom", reasoning |-> Str(sel.reasoning)]
          /\ (ClickConfirm /\ sel.selectedStack = "") =>
                 IF CustomBlank
                 THEN sel'.onStackSelect = sel.onStackSelect
                 ELSE /\ Len(sel'.onStackSelect) = Len(sel.onStackSelect) + 1
                      /\ NewStackSelect = [stackId |-> "custom",
                                           reasoning |-> Str(sel.reasoning)]
          /\ (ClickConfirm /\ sel.selectedStack # "") =>
                 NewStackSelect = [stackId |-> sel.selectedStack,
                                   reasoning |-> Str(sel.reasoning)]
          /\ ClickCancel => (~sel'.showCustom /\ sel'.customStack = EmptyStr)]_vars

\* with no stack selected, a custom architecture was described, a reasoning
\* given, and the choice submitted
C20_Witness ==
    /\ sel.pc = "mounted"
    /\ sel.selectedStack = ""
    /\ sel.showCustom
    /\ ~CustomBlank
    /\ sel.reasoning # EmptyStr
    /\ sel.onStackSelect = <<[stackId |-> "custom", reasoning |-> Str(sel.reasoning)]>>

\* C25: approve-stack changes only the stack fields of the metadata: the
\* current_phase and the phases_completed stored when approve-stack saves
\* the metadata are the ones stored just before, also when another request
\* has advanced the phase since approve-stack read the metadata.
C25_ApproveStackKeepsPhase ==
    [][\A r \in ReqIds :
          ApproveStackSaveMetadata(r, "ok") =>
              /\ meta'.current_phase = meta.current_phase
              /\ meta'.phases_completed = meta.phases_completed]_vars

\* the project row has the stack fields of the metadata
StackFieldsAgree(m, row) ==
    /\ m.stack_approved = row.stack_approved
    /\ m.stack_choice = row.stack_choice

\* C26: when an approve-stack request completes, with 200 or with 500, the
\* metadata and the project row agree on stack_approved and stack_choice,
\* and a request answered with 500 has left stack_approved as it was in
\* both. Taken for a request that found the two in agreement.
C26_StackFieldsAgreeAfterApproveStack ==
    [][\A r \in ReqIds :
          (/\ req[r].pc # "idle"
           /\ req'[r].pc = "idle"
           /\ dbProj.exists
           /\ StackFieldsAgree(req[r].metadata, dbProj)) =>
              /\ StackFieldsAgree(meta', dbProj')
              /\ last'.status = 500 =>
                     /\ meta'.stack_approved = req[r].metadata.stack_approved
                     /\ dbProj'.stack_approved = req[r].metadata.stack_approved]_vars

\* the step is the update of a request whose session is super_admin
UpdateBySuperAdmin ==
    \E r \in DOMAIN admin.patch :
        /\ PatchUpdate(r, "ok")
        /\ admin.patch[r].session.role = "super_admin"

\* C21: with the PATCH /admin/users requests served one after the other, a
\* user becomes super_admin only by a request whose session is super_admin,
\* the role of a super_admin is changed only by such a request, and a
\* request answered with 400, 403 or 404 leaves all roles as they were.
C21_SuperAdminOnlyBySuperAdmin ==
    [][/\ \A u \in AdminUsers :
             /\ (admin'.roles[u] = "super_admin" /\ admin.roles[u] # "super_admin")
                    => UpdateBySuperAdmin
             /\ (admin.roles[u] = "super_admin" /\ admin'.roles[u] # "super_admin")
                    => UpdateBySuperAdmin
       /\ resp'.status \in {400, 403, 404} => admin'.roles = admin.roles]_vars

\* a request was answered 200, and both users are super admins
C21_Witness ==
    /\ admin.pc = "users"
    /\ admin.roles = [u \in AdminUsers |-> "super_admin"]
    /\ \A r \in DOMAIN admin.patch : admin.patch[r].pc = "idle"
    /\ resp = AdminResponse("patch", 200)

\* C24: if a user has the role super_admin, then after any interleaving of
\* PATCH /admin/users requests a user still has it.
C24_SuperAdminRemains ==
    admin.pc = "users" => \E u \in AdminUsers : admin.roles[u] = "super_admin"

\* the headers every response has to carry
RequiredHeaders ==
    {"Content-Security-Policy", "X-Frame-Options", "X-Content-Type-Options",
     "Referrer-Policy", "Permissions-Policy", "Cross-Origin-Embedder-Policy",
     "Cross-Origin-Opener-Policy", "Cross-Origin-Resource-Policy"}

C23_ProtectedNeedsSession ==
    [][\A pathname \in Pathnames, lookup \in {"session", "no session", "throws"} :
          (authMiddleware(pathname, lookup) \/ authMiddlewareSrc(pathname, lookup)) =>
              IF pathname \in {"/", "/sign-in", "/sign-up"}
              THEN resp'.kind = "next" /\ calls' = <<>>
              ELSE /\ calls' = <<"get-session">>
                   /\ resp'.kind = "next" <=> lookup = "session"
                   /\ lookup = "no session" =>
                          /\ resp'.kind = "redirect"
                          /\ resp'.location = "/sign-in"
                          /\ resp'.callbackUrl = pathname]_vars

\* a request for /sign-in/ without a session was redirected
C23_Witness ==
    /\ proc.pc = "middleware"
    /\ resp.kind = "redirect"
    /\ resp.pathname = "/sign-in/"
    /\ resp.callbackUrl = "/sign-in/"
    /\ calls = <<"get-session">>

C28_DeleteFlow ==
    /\ [](dash.pc = "mounted" =>
             /\ Len(dash.deletes) <= 1
             /\ dash.deleting <=> dash.deletes # <<>>)
    /\ [][dash.pc = "mounted" =>
             /\ Len(dash'.deletes) > Len(dash.deletes) =>
                    /\ dash.deleteDialogOpen
                    /\ dash.selectedProjectToDelete # ""
                    /\ dash'.deletes = Append(dash.deletes, dash.selectedProjectToDelete)
             /\ \A outcome \in DeleteOutcomes :
                    DeleteResponse(outcome) =>
                        IF outcome = "success"
                        THEN /\ ~dash'.deleteDialogOpen
                             /\ dash'.selectedProjectToDelete = ""
                             /\ dash'.fetches = dash.fetches + 1
                        ELSE /\ dash'.deleteDialogOpen = dash.deleteDialogOpen
                             /\ dash'.selectedProjectToDelete = dash.selectedProjectToDelete
                             /\ dash'.fetches = dash.fetches
                             /\ dash'.error # Null
             /\ ((dash.selectedProjectToDelete # "" /\ dash'.selectedProjectToDelete = "")
                     \/ dash'.fetches > dash.fetches) =>
                    DeleteResponse("success")]_vars
    /\ ((dash.pc = "mounted" /\ dash.deleting) ~> ~dash.deleting)

\* the server refused to delete the selected project: the dialog is still
\* open on it, an error is shown and nothing is in flight
C28_Witness ==
    /\ dash.pc = "mounted"
    /\ dash.deleteDialogOpen
    /\ dash.selectedProjectToDelete = "p2"
    /\ dash.error = Str("Failed to delete project")
    /\ ~dash.deleting
    /\ dash.deletes = <<>>
    /\ dash.server = DashProjects

====
